---- MODULE Spec2Model ----
(***************************************************************************)
(* A model of the video recommender service of modelling/backend/main.py:  *)
(*   - the 2-regular + 1-priority recommendation engine                    *)
(*     (recommend_with_priority_pattern), as a step machine over the       *)
(*     variable rec (specification SpecRecommend; SpecPattern and          *)
(*     SpecLabels run the same machine on other families of inputs);       *)
(*   - the profile store: the request handlers create_user, get_user,      *)
(*     record_interaction and get_recommendations run by concurrent worker *)
(*     threads over the shared dictionary user_profiles, the re-entrant    *)
(*     lock profiles_lock and the two files user_profiles.json(.tmp)       *)
(*     (specification Spec, and SpecCrash with process interruption and    *)
(*     restart);                                                           *)
(*   - the startup of the service on whatever user_profiles.json holds     *)
(*     (specification SpecLoad);                                           *)
(*   - the same engine run to its return under weak fairness               *)
(*     (specification SpecLoop);                                           *)
(*   - get_recommendations of modelling/app/backend.py, which has the      *)
(*     loop inline, run beside the engine on the same inputs and shuffle   *)
(*     outcomes (specification SpecInline);                                *)
(*   - the comments store: post_comment and get_comments over              *)
(*     comments.json(.tmp) under comments_lock (specification              *)
(*     SpecComments);                                                      *)
(*   - predict_with_fallback of internal_logics/fallback.py                *)
(*     (specification SpecAssign).                                         *)
(***************************************************************************)
EXTENDS Integers, Sequences, FiniteSets, TLC

(***************************************************************************)
(* Bounds of the model.                                                    *)
(***************************************************************************)
\* video ids are 1..NumVideos
NumVideos == 3
\* longest list of video ids of one cluster in an index given to recommend
MaxListLen == 2
\* largest num_items given to recommend (the smallest is -1)
MaxCount == 3
\* largest interaction count in a profile given to recommend
MaxInter == 1
\* length of each cluster's list in the index of SpecPattern
PatternLen == 3
\* most rows in a centroid table given to predict_with_fallback
MaxRows == 2
\* number of calls the worker threads start in one run of the service
MaxCalls == 3
\* number of process interruptions in one run of SpecCrash
MaxCrashes == 1

Videos == 1..NumVideos

\* cluster labels as the integers of InteractionRequest.cluster_label
ClusterLabels == {0, 1}

(***************************************************************************)
(* Conversions between integer cluster labels and the string keys of       *)
(* cluster_interactions and of videos_by_cluster.                          *)
(***************************************************************************)
\* str(request.cluster_label)
Str(i) ==
    CASE i = 0 -> "0"
      [] i = 1 -> "1"
      [] i = 2 -> "2"
      [] i = -1 -> "-1"

\* does int(cluster_str) succeed
IsIntKey(k) == k \in {"0", "1", "2", "-1"}

\* int(cluster_str), where it succeeds
KeyInt(k) ==
    CASE k = "0" -> 0
      [] k = "1" -> 1
      [] k = "2" -> 2
      [] k = "-1" -> -1

ClusterKeys == {Str(c) : c \in ClusterLabels}

(***************************************************************************)
(* Lists and dictionaries.                                                 *)
(***************************************************************************)
\* set(seen); also `x in list`
Range(s) == {s[i] : i \in DOMAIN s}

\* the empty dict
EmptyDict == [x \in {} |-> 0]

\* d[k] = v
DictPut(d, k, v) == [x \in (DOMAIN d) \cup {k} |-> IF x = k THEN v ELSE d[x]]

\* d.get(k, default)
DictGet(d, k, default) == IF k \in DOMAIN d THEN d[k] ELSE default

\* list[:n], also for negative n
Slice(s, n) ==
    IF n >= 0
    THEN SubSeq(s, 1, IF n < Len(s) THEN n ELSE Len(s))
    ELSE SubSeq(s, 1, IF Len(s) + n > 0 THEN Len(s) + n ELSE 0)

\* the outcomes of random.shuffle(s): every rearrangement of the list
Shuffles(s) == {[i \in DOMAIN s |-> s[p[i]]] : p \in Permutations(DOMAIN s)}

(***************************************************************************)
(* The cluster -> video index: a dict in insertion order, modelled as a    *)
(* list of entries [key, vids] with distinct keys.                         *)
(***************************************************************************)
\* videos_by_cluster.keys()
IndexKeys(idx) == [i \in DOMAIN idx |-> idx[i].key]

\* videos_by_cluster.get(k, [])
IndexGet(idx, k) ==
    IF \E i \in DOMAIN idx : idx[i].key = k
    THEN idx[CHOOSE i \in DOMAIN idx : idx[i].key = k].vids
    ELSE <<>>

\* all_candidates before the shuffle: the lists of all clusters, in index order
RECURSIVE AllCandidates(_)
AllCandidates(idx) ==
    IF idx = <<>> THEN <<>>
    ELSE AllCandidates(SubSeq(idx, 1, Len(idx) - 1)) \o idx[Len(idx)].vids

\* the inner loop, were an id that has a label to keep it
RECURSIVE MapPidsKeepFirst(_, _, _)
MapPidsKeepFirst(mapping, pids, cluster_int) ==
    IF pids = <<>> THEN mapping
    ELSE MapPidsKeepFirst(IF Head(pids) \in DOMAIN mapping THEN mapping
                          ELSE DictPut(mapping, Head(pids), cluster_int),
                          Tail(pids), cluster_int)

\* one pass of the inner loop of build_pid_to_cluster_map
RECURSIVE MapPids(_, _, _)
MapPids(mapping, pids, cluster_int) ==
    IF pids = <<>> THEN mapping
    ELSE MapPids(DictPut(mapping, Head(pids), cluster_int), Tail(pids), cluster_int)

\* build_pid_to_cluster_map: a later cluster overwrites an earlier one
RECURSIVE build_pid_to_cluster_map(_)
build_pid_to_cluster_map(idx) ==
    IF idx = <<>> THEN EmptyDict
    ELSE LET before == build_pid_to_cluster_map(SubSeq(idx, 1, Len(idx) - 1))
             e == idx[Len(idx)]
         IN  IF IsIntKey(e.key) THEN MapPids(before, e.vids, KeyInt(e.key))
             ELSE before

(***************************************************************************)
(* sorted(keys, key=lambda c: interactions.get(c, 0), reverse=True):       *)
(* a stable sort, so keys of equal count keep their order in the index.    *)
(***************************************************************************)
\* the insertion, were the sort ascending (reverse=True left out)
InsertAsc(sorted, k, interactions) ==
    LET cnt(c) == DictGet(interactions, c, 0)
        n == Cardinality({i \in DOMAIN sorted : cnt(sorted[i]) <= cnt(k)})
    IN  SubSeq(sorted, 1, n) \o <<k>> \o SubSeq(sorted, n + 1, Len(sorted))

\* the insertion, were the sort to put a key before the keys of equal count
InsertDescTiesFirst(sorted, k, interactions) ==
    LET cnt(c) == DictGet(interactions, c, 0)
        n == Cardinality({i \in DOMAIN sorted : cnt(sorted[i]) > cnt(k)})
    IN  SubSeq(sorted, 1, n) \o <<k>> \o SubSeq(sorted, n + 1, Len(sorted))

\* sorted() inserts a key after the keys of greater or equal count
InsertDesc(sorted, k, interactions) ==
    LET cnt(c) == DictGet(interactions, c, 0)
        n == Cardinality({i \in DOMAIN sorted : cnt(sorted[i]) >= cnt(k)})
    IN  SubSeq(sorted, 1, n) \o <<k>> \o SubSeq(sorted, n + 1, Len(sorted))

RECURSIVE SortedClusters(_, _)
SortedClusters(keys, interactions) ==
    IF keys = <<>> THEN <<>>
    ELSE InsertDesc(SortedClusters(SubSeq(keys, 1, Len(keys) - 1), interactions),
                    keys[Len(keys)], interactions)

\* top_cluster: "none" stands for None
TopCluster(sorted_clusters) ==
    IF sorted_clusters # <<>> THEN sorted_clusters[1] ELSE "none"

\* [pid for pid in pool if pid not in seen_set]
\* the filter, were it to keep the ids of seen_set
KeepSeen(pool, seen_set) == pool

\* lines 192 and 198: "pid not in seen_set"
Unseen(pool, seen_set) == SelectSeq(pool, LAMBDA pid : pid \notin seen_set)

\* priority_pool before its shuffle
PriorityCandidates(idx, top_cluster, seen_set) ==
    IF top_cluster # "none" THEN Unseen(IndexGet(idx, top_cluster), seen_set)
    ELSE <<>>

\* the regular pool, were seen ids left in it
RegularPoolUnfiltered(all_candidates, seen_set) == all_candidates

\* regular_pool, from the shuffled all_candidates
RegularPool(all_candidates, seen_set) == Unseen(all_candidates, seen_set)

(***************************************************************************)
(* The interleave loop of recommend_with_priority_pattern.  The locals of  *)
(* one call are the fields of a record r:                                  *)
(*   pc             position: "prepare", "pools", "test", "regular",       *)
(*                  "after_for", "priority", "emit", "done"                *)
(*   k              iterations of `for _ in range(2)` done in this round   *)
(*   interactions, seen, videos_by_cluster, num_items     the arguments    *)
(*   pid_to_cluster, sorted_clusters, seen_set, regular_pool,              *)
(*   priority_pool, ordered, items                        the locals       *)
(***************************************************************************)
\* the skip loop, were it to skip nothing
SkipNone(pool, ordered) == pool

\* `while pool and (pool[0] in ordered): pool.pop(0)`
RECURSIVE SkipSelected(_, _)
SkipSelected(pool, ordered) ==
    IF pool # <<>> /\ Head(pool) \in Range(ordered)
    THEN SkipSelected(Tail(pool), ordered)
    ELSE pool

\* the loop condition, were it to look at the count alone
LoopCondCount(ordered, regular_pool, priority_pool, num_items) ==
    Len(ordered) < num_items

\* the loop condition, were it to need both pools
LoopCondBoth(ordered, regular_pool, priority_pool, num_items) ==
    Len(ordered) < num_items /\ regular_pool # <<>> /\ priority_pool # <<>>

\* the condition of the outer while
LoopCond(ordered, regular_pool, priority_pool, num_items) ==
    Len(ordered) < num_items /\ (regular_pool # <<>> \/ priority_pool # <<>>)

\* a new call, before its first statement
NewCall(interactions, seen, idx, num_items) ==
    [pc |-> "prepare", k |-> 0,
     interactions |-> interactions, seen |-> seen,
     videos_by_cluster |-> idx, num_items |-> num_items,
     pid_to_cluster |-> EmptyDict, sorted_clusters |-> <<>>, seen_set |-> {},
     regular_pool |-> <<>>, priority_pool |-> <<>>, ordered |-> <<>>,
     items |-> <<>>]

\* lines 181-184: the reverse index and the ranking of the clusters
PrepareSort(r) ==
    [r EXCEPT !.pid_to_cluster = build_pid_to_cluster_map(r.videos_by_cluster),
              !.sorted_clusters =
                  SortedClusters(IndexKeys(r.videos_by_cluster), r.interactions)]

\* line 186: seen_set
PrepareSeen(r) == [r EXCEPT !.pc = "pools", !.seen_set = Range(r.seen)]

\* lines 181-186
Prepare(r) == PrepareSeen(PrepareSort(r))

\* lines 187-199, given the outcomes of the two shuffles
BuildPools(r, all_candidates, priority_pool) ==
    [r EXCEPT !.pc = "test",
              !.priority_pool = priority_pool,
              !.regular_pool = RegularPool(all_candidates, r.seen_set)]

\* line 202
LoopTest(r) ==
    IF LoopCond(r.ordered, r.regular_pool, r.priority_pool, r.num_items)
    THEN [r EXCEPT !.pc = "regular", !.k = 0]
    ELSE [r EXCEPT !.pc = "emit"]

\* the for loop, were it `for _ in range(1)`
RegularSlotOnce(r) ==
    IF Len(r.ordered) >= r.num_items
    THEN [r EXCEPT !.pc = "after_for"]
    ELSE LET pool == SkipSelected(r.regular_pool, r.ordered)
         IN  [r EXCEPT !.regular_pool = IF pool # <<>> THEN Tail(pool) ELSE pool,
                       !.ordered = IF pool # <<>> THEN Append(@, Head(pool)) ELSE @,
                       !.k = @ + 1,
                       !.pc = "after_for"]

\* lines 204-210: one iteration of `for _ in range(2)`
RegularSlot(r) ==
    IF Len(r.ordered) >= r.num_items
    THEN [r EXCEPT !.pc = "after_for"]
    ELSE LET pool == SkipSelected(r.regular_pool, r.ordered)
         IN  [r EXCEPT !.regular_pool = IF pool # <<>> THEN Tail(pool) ELSE pool,
                       !.ordered = IF pool # <<>> THEN Append(@, Head(pool)) ELSE @,
                       !.k = @ + 1,
                       !.pc = IF r.k + 1 >= 2 THEN "after_for" ELSE "regular"]

\* lines 211-212
AfterFor(r) ==
    IF Len(r.ordered) >= r.num_items
    THEN [r EXCEPT !.pc = "emit"]
    ELSE [r EXCEPT !.pc = "priority"]

\* lines 214-217
PrioritySlot(r) ==
    LET pool == SkipSelected(r.priority_pool, r.ordered)
    IN  [r EXCEPT !.priority_pool = IF pool # <<>> THEN Tail(pool) ELSE pool,
                  !.ordered = IF pool # <<>> THEN Append(@, Head(pool)) ELSE @,
                  !.pc = "test"]

\* lines 219-225
MakeItems(ordered, num_items, pid_to_cluster) ==
    LET kept == Slice(ordered, num_items)
    IN  [i \in DOMAIN kept |->
            [pid |-> kept[i],
             cluster_label |-> DictGet(pid_to_cluster, kept[i], -1)]]

Emit(r) ==
    [r EXCEPT !.pc = "done",
              !.items = MakeItems(r.ordered, r.num_items, r.pid_to_cluster)]

(***************************************************************************)
(* The inputs of recommend that the model enumerates.                      *)
(***************************************************************************)
VidLists == UNION {[1..m -> Videos] : m \in 0..MaxListLen}

Indexes ==
    {idx \in UNION {[1..m -> [key : ClusterKeys, vids : VidLists]] :
                        m \in 0..Cardinality(ClusterKeys)} :
        \A i, j \in DOMAIN idx : i # j => idx[i].key # idx[j].key}

InteractionDicts == UNION {[D -> 1..MaxInter] : D \in SUBSET ClusterKeys}

\* seen_videos holds no id twice; recommend uses it only through set(seen)
SeenLists ==
    {s \in UNION {[1..m -> Videos] : m \in 0..NumVideos} :
        \A i, j \in DOMAIN s : i < j => s[i] < s[j]}

Counts == (-1)..MaxCount

(***************************************************************************)
(* The rest of a call once its pools are built (lines 201-225), as the     *)
(* step machine runs it.                                                   *)
(***************************************************************************)
LoopStep(r) ==
    CASE r.pc = "test" -> LoopTest(r)
      [] r.pc = "regular" -> RegularSlot(r)
      [] r.pc = "after_for" -> AfterFor(r)
      [] r.pc = "priority" -> PrioritySlot(r)
      [] r.pc = "emit" -> Emit(r)

RECURSIVE RunLoop(_)
RunLoop(r) == IF r.pc = "done" THEN r ELSE RunLoop(LoopStep(r))

\* the lists a call can return from the state r it has after line 186
Outcomes(r) ==
    {RunLoop(BuildPools(r, all_candidates, priority_pool)).items :
        all_candidates \in Shuffles(AllCandidates(r.videos_by_cluster)),
        priority_pool \in Shuffles(PriorityCandidates(r.videos_by_cluster,
                                      TopCluster(r.sorted_clusters), r.seen_set))}

(***************************************************************************)
(* The profile store.                                                      *)
(***************************************************************************)
\* worker threads of the server
Threads == {1, 2}

\* usernames are lists of characters
RawNames == {<<"a">>, <<"a", " ">>, <<"b">>, <<" ">>}

\* the usernames of the paths /users/{username}/...
PathNames == {<<"a">>, <<"b">>}

\* the video ids of interaction requests
Pids == {1, 2}

\* request.username.strip()
RECURSIVE StripLeft(_)
StripLeft(s) == IF s # <<>> /\ Head(s) = " " THEN StripLeft(Tail(s)) ELSE s

RECURSIVE StripRight(_)
StripRight(s) ==
    IF s # <<>> /\ s[Len(s)] = " " THEN StripRight(SubSeq(s, 1, Len(s) - 1)) ELSE s

\* the username, were it not stripped
StripNothing(s) == s

Strip(s) == StripRight(StripLeft(s))

\* lines 275-280: the profile of a new user
NewProfile(username) ==
    [username |-> username, cluster_interactions |-> EmptyDict,
     seen_videos |-> <<>>, liked_videos |-> <<>>]

\* the empty collection {}
NoProfiles == [u \in {} |-> NewProfile(u)]

\* a file: absent, written in part (not the text of a JSON value), holding
\* the JSON of an object, the JSON of another value, or bytes that are not
\* UTF-8 text
AbsentFile == [kind |-> "absent", data |-> NoProfiles]

PartialFile == [kind |-> "partial", data |-> NoProfiles]

JsonFile(data) == [kind |-> "json", data |-> data]

ValueFile == [kind |-> "value", data |-> NoProfiles]

BytesFile == [kind |-> "bytes", data |-> NoProfiles]

\* lines 40-42: json.load reads and decodes the text before it parses it; the
\* UnicodeDecodeError of undecodable bytes is no JSONDecodeError and leaves
\* load_user_profiles through line 45
LoadRaises(file) == file.kind = "bytes"

\* load_user_profiles: the collection read from the profile file
load_user_profiles(file) == IF file.kind = "json" THEN file.data ELSE NoProfiles

\* videos_by_cluster.json as the service finds it
SampleIndex ==
    <<[key |-> "0", vids |-> <<1, 2>>], [key |-> "1", vids |-> <<2, 3>>]>>

NoIndexFile == [kind |-> "none", data |-> <<>>]

VideoFiles ==
    {[kind |-> "absent", data |-> <<>>], [kind |-> "partial", data |-> <<>>],
     [kind |-> "json", data |-> <<>>], [kind |-> "json", data |-> SampleIndex]}

\* os.path.exists, were the file always there
FileExistsAlways(file) == TRUE

\* line 97: os.path.exists(VIDEOS_BY_CLUSTER_PATH)
FileExists(file) == file.kind # "absent"

\* lines 99-100: open and json.load raise on a file that is not there or is
\* not the text of a JSON value
IndexRaises(file) == FileExists(file) /\ file.kind # "json"

\* line 103: str(int(key)), or str(key) where int fails
NormalizedKey(key) == IF IsIntKey(key) THEN Str(KeyInt(key)) ELSE key

\* get_videos_by_cluster, where it returns
get_videos_by_cluster(file) ==
    IF ~FileExists(file) THEN <<>>
    ELSE [i \in DOMAIN file.data |->
              [key |-> NormalizedKey(file.data[i].key), vids |-> file.data[i].vids]]

\* num_items of get_recommendations
NumItems == 8

\* profiles_lock, a re-entrant lock: owner 0 when free
FreeLock == [owner |-> 0, count |-> 0]

\* a lock that excludes nobody
CanAcquireAny(lk, t) == TRUE

CanAcquire(lk, t) == lk.owner \in {0, t}

Acquired(lk, t) == [owner |-> t, count |-> lk.count + 1]

Released(lk) == IF lk.count > 1 THEN [lk EXCEPT !.count = @ - 1] ELSE FreeLock

\* requests and responses
NoRequest == [op |-> "none", username |-> <<>>, pid |-> 0, cluster_label |-> 0]

Request(op, username, pid, cluster_label) ==
    [op |-> op, username |-> username, pid |-> pid, cluster_label |-> cluster_label]

NoResponse == [status |-> "none", body |-> <<>>]

Response(status, body) == [status |-> status, body |-> body]

\* a thread that is not inside recommend_with_priority_pattern
NoCall == [NewCall(EmptyDict, <<>>, <<>>, 0) EXCEPT !.pc = "none"]

\* no call of predict_with_fallback
NoAssign == [pc |-> "none"]

\* no call of app/backend.py's get_recommendations
NoInline == [pc |-> "none"]

\* comments.json, or its temporary file, when it is not there
NoComments == [kind |-> "absent", data |-> EmptyDict]

VARIABLES
    rec,            \* SpecRecommend: the call of recommend_with_priority_pattern
    user_profiles,  \* the in-memory collection: username -> profile
    profiles_lock,  \* the re-entrant lock
    tmp_file,       \* user_profiles.json.tmp
    dest_file,      \* user_profiles.json
    pc,             \* per thread: its position in its handler, "idle" between calls
    req,            \* per thread: the request of its current (or last) call
    resp,           \* per thread: the response of its last call
    loc,            \* per thread: the locals of its call of recommend
    val,            \* per thread: the count read at lines 302-304
    wrote,          \* per thread: its call has replaced user_profiles.json
    mutated,        \* per thread: its call has changed user_profiles
    ok_records,     \* <<username, key>> -> record calls that returned ok
    dumped,         \* the collections json.dump has written
    writes,         \* op -> replacements of user_profiles.json by calls of that op
    calls,          \* calls started
    crashes,        \* process interruptions
    service,        \* "starting" until lifespan has run, then "up" or "failed"
    index_file,     \* per thread: videos_by_cluster.json as its call found it
    created,        \* the usernames create_user has returned a profile for, in this run
    recorded,       \* the <<username, pid>> of the record calls that returned ok
    owed,           \* per thread: the pids recorded for its user when its
                    \* call of get_recommendations began
    asg,            \* SpecAssign: the call of predict_with_fallback
    inl,            \* SpecInline: the call of app/backend.py's get_recommendations
    comments_lock,  \* the re-entrant lock of the comments store
    comments_tmp,   \* comments.json.tmp
    comments_file,  \* comments.json
    cstore,         \* per thread: the local `store` of its comments handler
    posted          \* pid -> the comments posted, in the order the lock was taken

store == <<user_profiles, profiles_lock, tmp_file, dest_file, pc, req, resp, loc,
           val, wrote, mutated, ok_records, dumped, writes, calls, crashes,
           service, index_file, created, recorded, owed>>

comments == <<comments_lock, comments_tmp, comments_file, cstore, posted>>

vars == <<rec, asg, inl, comments, store>>

\* the module's globals of lines 27-29, beside a user_profiles.json `file`
\* the globals of the profile store beside a user_profiles.json `file`
ProfilesInit(file, status) ==
    /\ user_profiles = NoProfiles
    /\ profiles_lock = FreeLock
    /\ tmp_file = AbsentFile
    /\ dest_file = file
    /\ pc = [t \in Threads |-> "idle"]
    /\ req = [t \in Threads |-> NoRequest]
    /\ resp = [t \in Threads |-> NoResponse]
    /\ loc = [t \in Threads |-> NoCall]
    /\ val = [t \in Threads |-> 0]
    /\ wrote = [t \in Threads |-> FALSE]
    /\ mutated = [t \in Threads |-> FALSE]
    /\ ok_records = EmptyDict
    /\ dumped = {}
    /\ writes = [op \in {"create", "record"} |-> 0]
    /\ calls = 0
    /\ crashes = 0
    /\ service = status
    /\ index_file = [t \in Threads |-> NoIndexFile]
    /\ created = {}
    /\ recorded = {}
    /\ owed = [t \in Threads |-> {}]

\* comments_lock of line 29 beside a comments.json `file`
CommentsInit(file) ==
    /\ comments_lock = FreeLock
    /\ comments_tmp = NoComments
    /\ comments_file = file
    /\ cstore = [t \in Threads |-> EmptyDict]
    /\ posted = EmptyDict

StoreInitWith(file, status) ==
    /\ ProfilesInit(file, status)
    /\ CommentsInit(NoComments)

\* the service started in an empty directory
StoreInit == StoreInitWith(AbsentFile, "up")

(***************************************************************************)
(* Steps shared by the handlers.                                           *)
(***************************************************************************)
\* a thread takes a request
Begin(t, request) ==
    /\ pc[t] = "idle"
    /\ calls < MaxCalls
    /\ calls' = calls + 1
    /\ req' = [req EXCEPT ![t] = request]
    /\ wrote' = [wrote EXCEPT ![t] = FALSE]
    /\ mutated' = [mutated EXCEPT ![t] = FALSE]
    /\ index_file' = [index_file EXCEPT ![t] = NoIndexFile]
    /\ owed' = [owed EXCEPT ![t] =
           IF request.op = "recommend"
           THEN {v \in Pids : <<request.username, v>> \in recorded}
           ELSE {}]

\* `with profiles_lock:` entered by thread t, which goes on at `to`
Lock(t, at, to) ==
    /\ pc[t] = at
    /\ CanAcquire(profiles_lock, t)
    /\ profiles_lock' = Acquired(profiles_lock, t)
    /\ pc' = [pc EXCEPT ![t] = to]

\* lines 302-304, the new count
IncrementedCount(profile, cluster_key) ==
    DictGet(profile.cluster_interactions, cluster_key, 0) + 1

\* the append, were it unconditional
AddAlways(list, pid) == Append(list, pid)

\* lines 305-306 and 308-309: append unless present
AddIfAbsent(list, pid) == IF pid \in Range(list) THEN list ELSE Append(list, pid)

(***************************************************************************)
(* create_user, lines 259-282.                                             *)
(***************************************************************************)
\* lines 269-271
CreateUser(t, raw) ==
    /\ Begin(t, Request("create", Strip(raw), 0, 0))
    /\ \/ /\ Strip(raw) = <<>>
          /\ resp' = [resp EXCEPT ![t] = Response("400", <<>>)]
          /\ pc' = pc
       \/ /\ Strip(raw) # <<>>
          /\ resp' = [resp EXCEPT ![t] = NoResponse]
          /\ pc' = [pc EXCEPT ![t] = "cu_lock"]
    /\ UNCHANGED <<rec, asg, inl, comments, service, user_profiles, profiles_lock, tmp_file, dest_file, loc, val,
                   ok_records, dumped, writes, crashes, created, recorded>>

\* line 273
CuLock(t) ==
    /\ Lock(t, "cu_lock", "cu_check")
    /\ UNCHANGED <<rec, asg, inl, comments, service, index_file, user_profiles, tmp_file, dest_file, req, resp, loc, val,
                   wrote, mutated, ok_records, dumped, writes, calls, crashes, created, recorded, owed>>

\* lines 274-281, were the membership test missing
CuCheckAlwaysInsert(t) ==
    /\ pc[t] = "cu_check"
    /\ user_profiles' =
           [u \in (DOMAIN user_profiles) \cup {req[t].username} |->
               IF u = req[t].username THEN NewProfile(u) ELSE user_profiles[u]]
    /\ mutated' = [mutated EXCEPT ![t] = TRUE]
    /\ pc' = [pc EXCEPT ![t] = "sv_lock"]
    /\ UNCHANGED <<rec, asg, inl, comments, service, index_file, profiles_lock, tmp_file, dest_file, req, resp, loc, val,
                   wrote, ok_records, dumped, writes, calls, crashes, created, recorded, owed>>

\* lines 274-281
CuCheck(t) ==
    /\ pc[t] = "cu_check"
    /\ \/ /\ req[t].username \notin DOMAIN user_profiles
          /\ user_profiles' =
                 [u \in (DOMAIN user_profiles) \cup {req[t].username} |->
                     IF u = req[t].username THEN NewProfile(u) ELSE user_profiles[u]]
          /\ mutated' = [mutated EXCEPT ![t] = TRUE]
          /\ pc' = [pc EXCEPT ![t] = "sv_lock"]
       \/ /\ req[t].username \in DOMAIN user_profiles
          /\ pc' = [pc EXCEPT ![t] = "cu_unlock"]
          /\ UNCHANGED <<user_profiles, mutated>>
    /\ UNCHANGED <<rec, asg, inl, comments, service, index_file, profiles_lock, tmp_file, dest_file, req, resp, loc, val,
                   wrote, ok_records, dumped, writes, calls, crashes, created, recorded, owed>>

\* the end of the with block of line 273
CuUnlock(t) ==
    /\ pc[t] = "cu_unlock"
    /\ profiles_lock' = Released(profiles_lock)
    /\ pc' = [pc EXCEPT ![t] = "cu_ret"]
    /\ UNCHANGED <<rec, asg, inl, comments, service, index_file, user_profiles, tmp_file, dest_file, req, resp, loc, val,
                   wrote, mutated, ok_records, dumped, writes, calls, crashes, created, recorded, owed>>

\* line 282
CuReturn(t) ==
    /\ pc[t] = "cu_ret"
    /\ resp' = [resp EXCEPT ![t] = Response("ok", user_profiles[req[t].username])]
    /\ created' = created \cup {req[t].username}
    /\ pc' = [pc EXCEPT ![t] = "idle"]
    /\ UNCHANGED <<rec, asg, inl, comments, service, index_file, user_profiles, profiles_lock, tmp_file, dest_file, req, loc,
                   val, wrote, mutated, ok_records, dumped, writes, calls, crashes, recorded, owed>>

(***************************************************************************)
(* save_user_profiles, lines 50-56, called with the lock held.             *)
(***************************************************************************)
\* line 53
SvLock(t) ==
    /\ Lock(t, "sv_lock", "sv_open")
    /\ UNCHANGED <<rec, asg, inl, comments, service, index_file, user_profiles, tmp_file, dest_file, req, resp, loc, val,
                   wrote, mutated, ok_records, dumped, writes, calls, crashes, created, recorded, owed>>

\* line 54, were the destination opened for writing instead
SvOpenDest(t) ==
    /\ pc[t] = "sv_open"
    /\ dest_file' = PartialFile
    /\ pc' = [pc EXCEPT ![t] = "sv_dump"]
    /\ UNCHANGED <<rec, asg, inl, comments, service, index_file, user_profiles, profiles_lock, tmp_file, req, resp, loc, val,
                   wrote, mutated, ok_records, dumped, writes, calls, crashes, created, recorded, owed>>

\* line 54: open(tmp_path, "w") truncates the temporary file
SvOpen(t) ==
    /\ pc[t] = "sv_open"
    /\ tmp_file' = PartialFile
    /\ pc' = [pc EXCEPT ![t] = "sv_dump"]
    /\ UNCHANGED <<rec, asg, inl, comments, service, index_file, user_profiles, profiles_lock, dest_file, req, resp, loc, val,
                   wrote, mutated, ok_records, dumped, writes, calls, crashes, created, recorded, owed>>

\* line 55 and the close of the file
SvDump(t) ==
    /\ pc[t] = "sv_dump"
    /\ tmp_file' = JsonFile(user_profiles)
    /\ dumped' = dumped \cup {user_profiles}
    /\ pc' = [pc EXCEPT ![t] = "sv_replace"]
    /\ UNCHANGED <<rec, asg, inl, comments, service, index_file, user_profiles, profiles_lock, dest_file, req, resp, loc, val,
                   wrote, mutated, ok_records, writes, calls, crashes, created, recorded, owed>>

\* line 56: os.replace(tmp_path, USER_PROFILES_PATH)
SvReplace(t) ==
    /\ pc[t] = "sv_replace"
    /\ dest_file' = tmp_file
    /\ tmp_file' = AbsentFile
    /\ wrote' = [wrote EXCEPT ![t] = TRUE]
    /\ writes' = [writes EXCEPT ![req[t].op] = @ + 1]
    /\ pc' = [pc EXCEPT ![t] = "sv_unlock"]
    /\ UNCHANGED <<rec, asg, inl, comments, service, index_file, user_profiles, profiles_lock, req, resp, loc, val, mutated,
                   ok_records, dumped, calls, crashes, created, recorded, owed>>

\* the end of the with block of line 53, and the return to the caller
SvUnlock(t) ==
    /\ pc[t] = "sv_unlock"
    /\ profiles_lock' = Released(profiles_lock)
    /\ pc' = [pc EXCEPT ![t] = IF req[t].op = "create" THEN "cu_unlock" ELSE "ri_unlock"]
    /\ UNCHANGED <<rec, asg, inl, comments, service, index_file, user_profiles, tmp_file, dest_file, req, resp, loc, val,
                   wrote, mutated, ok_records, dumped, writes, calls, crashes, created, recorded, owed>>

(***************************************************************************)
(* get_user, lines 285-288.                                                *)
(***************************************************************************)
GetUser(t, username) ==
    /\ Begin(t, Request("get", username, 0, 0))
    /\ resp' = [resp EXCEPT ![t] = NoResponse]
    /\ pc' = [pc EXCEPT ![t] = "gu_get"]
    /\ UNCHANGED <<rec, asg, inl, comments, service, user_profiles, profiles_lock, tmp_file, dest_file,
                   loc, val, ok_records, dumped, writes, crashes, created, recorded>>

\* the lookup, were it to remove the profile (pop for get)
GuGetPops(t) ==
    /\ pc[t] = "gu_get"
    /\ \/ /\ req[t].username \notin DOMAIN user_profiles
          /\ resp' = [resp EXCEPT ![t] = Response("404", <<>>)]
          /\ user_profiles' = user_profiles
       \/ /\ req[t].username \in DOMAIN user_profiles
          /\ resp' = [resp EXCEPT ![t] = Response("ok", user_profiles[req[t].username])]
          /\ user_profiles' =
                 [u \in (DOMAIN user_profiles) \ {req[t].username} |-> user_profiles[u]]
    /\ pc' = [pc EXCEPT ![t] = "idle"]
    /\ UNCHANGED <<rec, asg, inl, comments, service, index_file, profiles_lock, tmp_file, dest_file, req,
                   loc, val, wrote, mutated, ok_records, dumped, writes, calls,
                   crashes, created, recorded, owed>>

\* line 288: get_user_or_404, lines 86-88, without the lock
GuGet(t) ==
    /\ pc[t] = "gu_get"
    /\ \/ /\ req[t].username \notin DOMAIN user_profiles
          /\ resp' = [resp EXCEPT ![t] = Response("404", <<>>)]
       \/ /\ req[t].username \in DOMAIN user_profiles
          /\ resp' = [resp EXCEPT ![t] = Response("ok", user_profiles[req[t].username])]
    /\ pc' = [pc EXCEPT ![t] = "idle"]
    /\ UNCHANGED <<rec, asg, inl, comments, service, index_file, user_profiles, profiles_lock, tmp_file,
                   dest_file, req, loc, val, wrote, mutated, ok_records, dumped, writes,
                   calls, crashes, created, recorded, owed>>

(***************************************************************************)
(* record_interaction, lines 291-311.                                      *)
(***************************************************************************)
RecordInteraction(t, username, pid, cluster_label) ==
    /\ Begin(t, Request("record", username, pid, cluster_label))
    /\ resp' = [resp EXCEPT ![t] = NoResponse]
    /\ pc' = [pc EXCEPT ![t] = "ri_lock"]
    /\ UNCHANGED <<rec, asg, inl, comments, service, user_profiles, profiles_lock, tmp_file, dest_file, loc, val,
                   ok_records, dumped, writes, crashes, created, recorded>>

\* line 298
RiLock(t) ==
    /\ Lock(t, "ri_lock", "ri_lookup")
    /\ UNCHANGED <<rec, asg, inl, comments, service, index_file, user_profiles, tmp_file, dest_file, req, resp, loc, val,
                   wrote, mutated, ok_records, dumped, writes, calls, crashes, created, recorded, owed>>

\* line 299, were a missing profile created instead of refused
RiLookupCreates(t) ==
    /\ pc[t] = "ri_lookup"
    /\ user_profiles' =
           [u \in (DOMAIN user_profiles) \cup {req[t].username} |->
               IF u \in DOMAIN user_profiles THEN user_profiles[u] ELSE NewProfile(u)]
    /\ pc' = [pc EXCEPT ![t] = "ri_read"]
    /\ UNCHANGED <<rec, asg, inl, comments, service, index_file, profiles_lock, tmp_file, dest_file, req, resp, loc, val,
                   wrote, mutated, ok_records, dumped, writes, calls, crashes, created, recorded, owed>>

\* line 299: get_user_or_404; the exception leaves the with block
RiLookup(t) ==
    /\ pc[t] = "ri_lookup"
    /\ \/ /\ req[t].username \notin DOMAIN user_profiles
          /\ profiles_lock' = Released(profiles_lock)
          /\ resp' = [resp EXCEPT ![t] = Response("404", <<>>)]
          /\ pc' = [pc EXCEPT ![t] = "idle"]
       \/ /\ req[t].username \in DOMAIN user_profiles
          /\ pc' = [pc EXCEPT ![t] = "ri_read"]
          /\ UNCHANGED <<profiles_lock, resp>>
    /\ UNCHANGED <<rec, asg, inl, comments, service, index_file, user_profiles, tmp_file, dest_file, req, loc, val, wrote,
                   mutated, ok_records, dumped, writes, calls, crashes, created, recorded, owed>>

\* lines 300-304, the right-hand side: the count read, plus one
RiRead(t) ==
    /\ pc[t] = "ri_read"
    /\ val' = [val EXCEPT ![t] =
                  IncrementedCount(user_profiles[req[t].username],
                                   Str(req[t].cluster_label))]
    /\ pc' = [pc EXCEPT ![t] = "ri_write"]
    /\ UNCHANGED <<rec, asg, inl, comments, service, index_file, user_profiles, profiles_lock, tmp_file, dest_file, req, resp,
                   loc, wrote, mutated, ok_records, dumped, writes, calls, crashes, created, recorded, owed>>

\* lines 302-304, the assignment
RiWrite(t) ==
    /\ pc[t] = "ri_write"
    /\ user_profiles' =
           [user_profiles EXCEPT ![req[t].username].cluster_interactions =
               DictPut(@, Str(req[t].cluster_label), val[t])]
    /\ mutated' = [mutated EXCEPT ![t] = TRUE]
    /\ val' = [val EXCEPT ![t] = 0]
    /\ pc' = [pc EXCEPT ![t] = "ri_seen"]
    /\ UNCHANGED <<rec, asg, inl, comments, service, index_file, profiles_lock, tmp_file, dest_file, req, resp, loc, wrote,
                   ok_records, dumped, writes, calls, crashes, created, recorded, owed>>

\* lines 305-306, were the id added to the seen_videos of every profile
RiSeenEveryone(t) ==
    /\ pc[t] = "ri_seen"
    /\ user_profiles' =
           [u \in DOMAIN user_profiles |->
               [user_profiles[u] EXCEPT !.seen_videos = AddIfAbsent(@, req[t].pid)]]
    /\ pc' = [pc EXCEPT ![t] = "ri_liked"]
    /\ UNCHANGED <<rec, asg, inl, comments, service, index_file, profiles_lock, tmp_file, dest_file, req, resp, loc, val,
                   wrote, mutated, ok_records, dumped, writes, calls, crashes, created, recorded, owed>>

\* lines 305-306, were the id not added to seen_videos
RiSeenSkipped(t) ==
    /\ pc[t] = "ri_seen"
    /\ pc' = [pc EXCEPT ![t] = "ri_liked"]
    /\ UNCHANGED <<rec, asg, inl, comments, service, index_file, user_profiles, profiles_lock, tmp_file,
                   dest_file, req, resp, loc, val, wrote, mutated, ok_records, dumped,
                   writes, calls, crashes, created, recorded, owed>>

\* lines 305-306
RiSeen(t) ==
    /\ pc[t] = "ri_seen"
    /\ user_profiles' =
           [user_profiles EXCEPT ![req[t].username].seen_videos =
               AddIfAbsent(@, req[t].pid)]
    /\ pc' = [pc EXCEPT ![t] = "ri_liked"]
    /\ UNCHANGED <<rec, asg, inl, comments, service, index_file, profiles_lock, tmp_file, dest_file, req, resp, loc, val,
                   wrote, mutated, ok_records, dumped, writes, calls, crashes, created, recorded, owed>>

\* lines 307-310, were save_user_profiles not called
RiLikedNoSave(t) ==
    /\ pc[t] = "ri_liked"
    /\ user_profiles' =
           [user_profiles EXCEPT ![req[t].username].liked_videos =
               IF req[t].pid \in Range(@) THEN @ ELSE Append(@, req[t].pid)]
    /\ pc' = [pc EXCEPT ![t] = "ri_unlock"]
    /\ UNCHANGED <<rec, asg, inl, comments, service, index_file, profiles_lock, tmp_file, dest_file, req, resp, loc, val,
                   wrote, mutated, ok_records, dumped, writes, calls, crashes, created, recorded, owed>>

\* lines 307-310
RiLiked(t) ==
    /\ pc[t] = "ri_liked"
    /\ user_profiles' =
           [user_profiles EXCEPT ![req[t].username].liked_videos =
               AddIfAbsent(@, req[t].pid)]
    /\ pc' = [pc EXCEPT ![t] = "sv_lock"]
    /\ UNCHANGED <<rec, asg, inl, comments, service, index_file, profiles_lock, tmp_file, dest_file, req, resp, loc, val,
                   wrote, mutated, ok_records, dumped, writes, calls, crashes, created, recorded, owed>>

\* the end of the with block of line 298, and line 311
RiUnlock(t) ==
    /\ pc[t] = "ri_unlock"
    /\ profiles_lock' = Released(profiles_lock)
    /\ resp' = [resp EXCEPT ![t] = Response("ok", <<>>)]
    /\ ok_records' =
           LET call == <<req[t].username, Str(req[t].cluster_label)>>
           IN  DictPut(ok_records, call, DictGet(ok_records, call, 0) + 1)
    /\ recorded' = recorded \cup {<<req[t].username, req[t].pid>>}
    /\ pc' = [pc EXCEPT ![t] = "idle"]
    /\ UNCHANGED <<rec, asg, inl, comments, service, index_file, user_profiles, tmp_file, dest_file, req, loc, val, wrote,
                   mutated, dumped, writes, calls, crashes, created, owed>>

(***************************************************************************)
(* get_recommendations, lines 314-330.  interactions and seen are the      *)
(* profile's own dict and list, read where recommend reads them.           *)
(***************************************************************************)
\* line 315: a request for recommendations arrives
GetRecommendations(t, username) ==
    /\ Begin(t, Request("recommend", username, 0, 0))
    /\ resp' = [resp EXCEPT ![t] = NoResponse]
    /\ pc' = [pc EXCEPT ![t] = "gr_lookup"]
    /\ UNCHANGED <<rec, asg, inl, comments, service, user_profiles, profiles_lock, tmp_file, dest_file,
                   loc, val, ok_records, dumped, writes, crashes, created, recorded>>

\* line 317: get_user_or_404, without the lock
GrLookup(t) ==
    /\ pc[t] = "gr_lookup"
    /\ \/ /\ req[t].username \notin DOMAIN user_profiles
          /\ resp' = [resp EXCEPT ![t] = Response("404", <<>>)]
          /\ pc' = [pc EXCEPT ![t] = "idle"]
       \/ /\ req[t].username \in DOMAIN user_profiles
          /\ resp' = resp
          /\ pc' = [pc EXCEPT ![t] = "gr_load"]
    /\ UNCHANGED <<rec, asg, inl, comments, service, index_file, user_profiles, profiles_lock, tmp_file,
                   dest_file, req, loc, val, wrote, mutated, ok_records, dumped, writes,
                   calls, crashes, created, recorded, owed>>

\* lines 320-322: the index is read from the file as it is at this moment
GrLoad(t) ==
    /\ pc[t] = "gr_load"
    /\ \E file \in VideoFiles :
          /\ index_file' = [index_file EXCEPT ![t] = file]
          /\ \/ /\ IndexRaises(file)
                /\ resp' = [resp EXCEPT ![t] = Response("500", <<>>)]
                /\ pc' = [pc EXCEPT ![t] = "idle"]
                /\ loc' = loc
             \/ /\ ~IndexRaises(file)
                /\ get_videos_by_cluster(file) = <<>>
                /\ resp' = [resp EXCEPT ![t] = Response("ok", <<>>)]
                /\ pc' = [pc EXCEPT ![t] = "idle"]
                /\ loc' = loc
             \/ /\ ~IndexRaises(file)
                /\ get_videos_by_cluster(file) # <<>>
                /\ loc' = [loc EXCEPT ![t] =
                       NewCall(EmptyDict, <<>>, get_videos_by_cluster(file), NumItems)]
                /\ pc' = [pc EXCEPT ![t] = "gr_sort"]
                /\ resp' = resp
    /\ UNCHANGED <<rec, asg, inl, comments, service, user_profiles, profiles_lock, tmp_file, dest_file,
                   req, val, wrote, mutated, ok_records, dumped, writes, calls,
                   crashes, created, recorded, owed>>

\* lines 181-184: sorted reads the counts of the profile's dict
GrSort(t) ==
    /\ pc[t] = "gr_sort"
    /\ loc' = [loc EXCEPT ![t] =
           PrepareSort([@ EXCEPT !.interactions =
                            user_profiles[req[t].username].cluster_interactions])]
    /\ pc' = [pc EXCEPT ![t] = "gr_seen"]
    /\ UNCHANGED <<rec, asg, inl, comments, service, index_file, user_profiles, profiles_lock, tmp_file, dest_file, req, resp,
                   val, wrote, mutated, ok_records, dumped, writes, calls, crashes, created, recorded, owed>>

\* line 186: set(seen) reads the profile's list
GrSeen(t) ==
    /\ pc[t] = "gr_seen"
    /\ loc' = [loc EXCEPT ![t] =
           PrepareSeen([@ EXCEPT !.seen = user_profiles[req[t].username].seen_videos])]
    /\ pc' = [pc EXCEPT ![t] = "gr_run"]
    /\ UNCHANGED <<rec, asg, inl, comments, service, index_file, user_profiles, profiles_lock, tmp_file, dest_file, req, resp,
                   val, wrote, mutated, ok_records, dumped, writes, calls, crashes, created, recorded, owed>>

\* lines 187-225 and 330, were the returned ids marked as seen
GrRunMarksSeen(t) ==
    /\ pc[t] = "gr_run"
    /\ \E items \in Outcomes(loc[t]) :
          /\ resp' = [resp EXCEPT ![t] = Response("ok", items)]
          /\ user_profiles' =
                 [user_profiles EXCEPT ![req[t].username].seen_videos =
                     @ \o [i \in DOMAIN items |-> items[i].pid]]
    /\ loc' = [loc EXCEPT ![t] = NoCall]
    /\ pc' = [pc EXCEPT ![t] = "idle"]
    /\ UNCHANGED <<rec, asg, inl, comments, service, index_file, profiles_lock, tmp_file, dest_file, req,
                   val, wrote, mutated, ok_records, dumped, writes, calls, crashes, created, recorded, owed>>

\* lines 187-225 and 330
GrRun(t) ==
    /\ pc[t] = "gr_run"
    /\ \E items \in Outcomes(loc[t]) :
          resp' = [resp EXCEPT ![t] = Response("ok", items)]
    /\ loc' = [loc EXCEPT ![t] = NoCall]
    /\ pc' = [pc EXCEPT ![t] = "idle"]
    /\ UNCHANGED <<rec, asg, inl, comments, service, index_file, user_profiles, profiles_lock, tmp_file, dest_file, req, val,
                   wrote, mutated, ok_records, dumped, writes, calls, crashes, created, recorded, owed>>

(***************************************************************************)
(* The process is interrupted and started again: the threads and the lock  *)
(* are gone, lifespan loads the collection from user_profiles.json.        *)
(***************************************************************************)
Crash ==
    /\ crashes < MaxCrashes
    /\ crashes' = crashes + 1
    /\ user_profiles' = load_user_profiles(dest_file)
    /\ profiles_lock' = FreeLock
    /\ pc' = [t \in Threads |-> "idle"]
    /\ req' = [t \in Threads |-> NoRequest]
    /\ resp' = [t \in Threads |-> NoResponse]
    /\ loc' = [t \in Threads |-> NoCall]
    /\ val' = [t \in Threads |-> 0]
    /\ wrote' = [t \in Threads |-> FALSE]
    /\ mutated' = [t \in Threads |-> FALSE]
    /\ index_file' = [t \in Threads |-> NoIndexFile]
    /\ created' = {}
    /\ owed' = [t \in Threads |-> {}]
    /\ UNCHANGED <<rec, asg, inl, comments, service, tmp_file, dest_file, ok_records, dumped, writes, calls,
                   recorded>>

(***************************************************************************)
(* Startup, lines 228-232 and 32-47: lifespan runs load_user_profiles on   *)
(* whatever user_profiles.json holds.                                      *)
(***************************************************************************)
\* profiles a snapshot may hold for username u
SnapshotProfiles(u) ==
    {[username |-> u, cluster_interactions |-> ci,
      seen_videos |-> sl[1], liked_videos |-> sl[2]] :
        ci \in {EmptyDict, DictPut(EmptyDict, "0", 1)},
        sl \in {<<<<>>, <<>>>>, <<<<1>>, <<>>>>, <<<<1>>, <<1>>>>}}

\* the JSON objects a snapshot may hold
Snapshots ==
    UNION {{f \in [D -> UNION {SnapshotProfiles(u) : u \in D}] :
                \A u \in D : f[u].username = u} : D \in SUBSET PathNames}

\* user_profiles.json as the service may find it when it starts
SnapshotFiles ==
    {AbsentFile, PartialFile, ValueFile, BytesFile} \cup {JsonFile(f) : f \in Snapshots}

Lifespan ==
    /\ service = "starting"
    /\ \/ /\ LoadRaises(dest_file)
          /\ service' = "failed"
          /\ user_profiles' = user_profiles
       \/ /\ ~LoadRaises(dest_file)
          /\ service' = "up"
          /\ user_profiles' = load_user_profiles(dest_file)
    /\ UNCHANGED <<rec, asg, inl, comments, index_file, profiles_lock, tmp_file, dest_file, pc, req, resp,
                   loc, val, wrote, mutated, ok_records, dumped, writes, calls,
                   crashes, created, recorded, owed>>

InitLoad ==
    /\ rec = NoCall
    /\ \E file \in SnapshotFiles : StoreInitWith(file, "starting")
    /\ asg = NoAssign
    /\ inl = NoInline

NextLoad == Lifespan

SpecLoad == InitLoad /\ [][NextLoad]_vars

Init ==
    /\ rec = NoCall
    /\ StoreInit
    /\ asg = NoAssign
    /\ inl = NoInline

Next ==
    \E t \in Threads :
        \/ \E raw \in RawNames : CreateUser(t, raw)
        \/ CuLock(t)
        \/ CuCheck(t)
        \/ CuUnlock(t)
        \/ CuReturn(t)
        \/ SvLock(t)
        \/ SvOpen(t)
        \/ SvDump(t)
        \/ SvReplace(t)
        \/ SvUnlock(t)
        \/ \E username \in PathNames : GetUser(t, username)
        \/ GuGet(t)
        \/ \E username \in PathNames, pid \in Pids, cluster_label \in ClusterLabels :
               RecordInteraction(t, username, pid, cluster_label)
        \/ RiLock(t)
        \/ RiLookup(t)
        \/ RiRead(t)
        \/ RiWrite(t)
        \/ RiSeen(t)
        \/ RiLiked(t)
        \/ RiUnlock(t)
        \/ \E username \in PathNames : GetRecommendations(t, username)
        \/ GrLookup(t)
        \/ GrLoad(t)
        \/ GrSort(t)
        \/ GrSeen(t)
        \/ GrRun(t)

Spec == Init /\ [][Next]_vars

NextCrash == Next \/ Crash

SpecCrash == Init /\ [][NextCrash]_vars

InitRecommend ==
    /\ \E interactions \in InteractionDicts, seen \in SeenLists,
          idx \in Indexes, num_items \in Counts :
           rec = NewCall(interactions, seen, idx, num_items)
    /\ StoreInit
    /\ asg = NoAssign
    /\ inl = NoInline

RecPrepare == rec.pc = "prepare" /\ rec' = Prepare(rec) /\ UNCHANGED <<asg, inl, comments, store>>

RecBuildPools ==
    /\ rec.pc = "pools"
    /\ \E all_candidates \in Shuffles(AllCandidates(rec.videos_by_cluster)),
          priority_pool \in Shuffles(PriorityCandidates(rec.videos_by_cluster,
                                        TopCluster(rec.sorted_clusters), rec.seen_set)) :
          rec' = BuildPools(rec, all_candidates, priority_pool)
    /\ UNCHANGED <<asg, inl, comments, store>>

RecLoopTest == rec.pc = "test" /\ rec' = LoopTest(rec) /\ UNCHANGED <<asg, inl, comments, store>>

RecRegularSlot == rec.pc = "regular" /\ rec' = RegularSlot(rec) /\ UNCHANGED <<asg, inl, comments, store>>

RecAfterFor == rec.pc = "after_for" /\ rec' = AfterFor(rec) /\ UNCHANGED <<asg, inl, comments, store>>

RecPrioritySlot == rec.pc = "priority" /\ rec' = PrioritySlot(rec) /\ UNCHANGED <<asg, inl, comments, store>>

RecEmit == rec.pc = "emit" /\ rec' = Emit(rec) /\ UNCHANGED <<asg, inl, comments, store>>

NextRecommend ==
    \/ RecPrepare
    \/ RecBuildPools
    \/ RecLoopTest
    \/ RecRegularSlot
    \/ RecAfterFor
    \/ RecPrioritySlot
    \/ RecEmit

SpecRecommend == InitRecommend /\ [][NextRecommend]_vars

(***************************************************************************)
(* The call that is never abandoned halfway: the interpreter runs the next *)
(* statement as long as there is one.  The seen list is empty or holds one *)
(* id.                                                                     *)
(***************************************************************************)
InitLoop ==
    /\ \E interactions \in InteractionDicts, seen \in {<<>>, <<1>>},
          idx \in Indexes, num_items \in Counts :
           rec = NewCall(interactions, seen, idx, num_items)
    /\ StoreInit
    /\ asg = NoAssign
    /\ inl = NoInline

SpecLoop == InitLoop /\ [][NextRecommend]_vars /\ WF_vars(NextRecommend)

(***************************************************************************)
(* The call of get_recommendations (num_items = 8) on an index of two      *)
(* clusters long enough for two full rounds, their lists disjoint or       *)
(* sharing one id.                                                         *)
(***************************************************************************)
PatternIndex ==
    <<[key |-> "0", vids |-> [i \in 1..PatternLen |-> i]],
      [key |-> "1", vids |-> [i \in 1..PatternLen |-> PatternLen + i]]>>

PatternIndexes ==
    {PatternIndex,
     [PatternIndex EXCEPT ![2].vids = <<PatternLen>> \o @]}

PatternInteractions == {EmptyDict, DictPut(EmptyDict, "1", 1)}

PatternSeen == {<<>>, <<1>>, <<PatternLen + 1>>}

InitPattern ==
    /\ \E interactions \in PatternInteractions, seen \in PatternSeen,
          idx \in PatternIndexes :
           rec = NewCall(interactions, seen, idx, NumItems)
    /\ StoreInit
    /\ asg = NoAssign
    /\ inl = NoInline

SpecPattern == InitPattern /\ [][NextRecommend]_vars

(***************************************************************************)
(* The call of recommend on the indexes whose keys may include one that    *)
(* int() refuses, for a profile without interactions.                      *)
(***************************************************************************)
IndexKeySet == ClusterKeys \cup {"x"}

LabelIndexes ==
    {idx \in UNION {[1..m -> [key : IndexKeySet, vids : VidLists]] :
                        m \in 0..Cardinality(ClusterKeys)} :
        \A i, j \in DOMAIN idx : i # j => idx[i].key # idx[j].key}

InitLabels ==
    /\ \E idx \in LabelIndexes, seen \in {<<>>, <<1>>} :
           rec = NewCall(EmptyDict, seen, idx, MaxCount)
    /\ StoreInit
    /\ asg = NoAssign
    /\ inl = NoInline

SpecLabels == InitLabels /\ [][NextRecommend]_vars

(***************************************************************************)
(* The comments store: comments.json, read and rewritten whole by every    *)
(* call under comments_lock (lines 131-157 and 333-354).  A store is a     *)
(* dict from str(pid) to the list of the video's comments.                 *)
(***************************************************************************)
\* the username and text fields of CommentCreate
CommentNames == {<<"a">>, <<" ">>}

CommentTexts == {<<"x">>, <<"y", " ">>, <<>>}

\* comments.json holding the store `data`
CommentsJson(data) == [kind |-> "json", data |-> data]

\* a file whose text is not JSON: json.load raises JSONDecodeError
CommentsPartial == [kind |-> "partial", data |-> EmptyDict]

\* a file whose JSON is not an object
CommentsValue == [kind |-> "value", data |-> EmptyDict]

\* load_comments_store, lines 131-145
load_comments_store(file) == IF file.kind = "json" THEN file.data ELSE EmptyDict

CommentRequest(op, pid, username, text) ==
    [op |-> op, pid |-> pid, username |-> username, text |-> text]

\* line 346: the comment of a request
CommentOf(request) ==
    [username |-> Strip(request.username), text |-> Strip(request.text)]

\* line 352: store.setdefault(key, []).append(comment)
AppendComment(store_, key, comment) ==
    DictPut(store_, key, Append(DictGet(store_, key, <<>>), comment))

\* lines 344-349: a post arrives; a blank username or text is refused
PostComment(t, pid, username, text) ==
    /\ Begin(t, CommentRequest("comment", pid, username, text))
    /\ LET comment == CommentOf(CommentRequest("comment", pid, username, text))
       IN  IF comment.username = <<>> \/ comment.text = <<>>
           THEN /\ resp' = [resp EXCEPT ![t] = Response("400", <<>>)]
                /\ pc' = [pc EXCEPT ![t] = "idle"]
           ELSE /\ resp' = [resp EXCEPT ![t] = NoResponse]
                /\ pc' = [pc EXCEPT ![t] = "pc_lock"]
    /\ UNCHANGED <<rec, asg, inl, service, user_profiles, profiles_lock, tmp_file, dest_file, loc, val,
                   ok_records, dumped, writes, crashes, created, recorded,
                   comments>>

\* line 350; posted keeps the order in which the calls take the lock
PcLock(t) ==
    /\ pc[t] = "pc_lock"
    /\ CanAcquire(comments_lock, t)
    /\ comments_lock' = Acquired(comments_lock, t)
    /\ posted' = AppendComment(posted, Str(req[t].pid), CommentOf(req[t]))
    /\ pc' = [pc EXCEPT ![t] = "pc_load"]
    /\ UNCHANGED <<rec, asg, inl, service, user_profiles, profiles_lock, tmp_file, dest_file, loc, val,
                   ok_records, dumped, writes, crashes, created, recorded,
                   req, calls, wrote, mutated, index_file, owed,
                   resp, comments_tmp, comments_file, cstore>>

\* line 351
PcLoad(t) ==
    /\ pc[t] = "pc_load"
    /\ cstore' = [cstore EXCEPT ![t] = load_comments_store(comments_file)]
    /\ pc' = [pc EXCEPT ![t] = "pc_append"]
    /\ UNCHANGED <<rec, asg, inl, service, user_profiles, profiles_lock, tmp_file, dest_file, loc, val,
                   ok_records, dumped, writes, crashes, created, recorded,
                   req, calls, wrote, mutated, index_file, owed,
                   resp, comments_lock, comments_tmp, comments_file, posted>>

\* line 352
PcAppend(t) ==
    /\ pc[t] = "pc_append"
    /\ cstore' = [cstore EXCEPT ![t] =
                     AppendComment(@, Str(req[t].pid), CommentOf(req[t]))]
    /\ pc' = [pc EXCEPT ![t] = "pc_open"]
    /\ UNCHANGED <<rec, asg, inl, service, user_profiles, profiles_lock, tmp_file, dest_file, loc, val,
                   ok_records, dumped, writes, crashes, created, recorded,
                   req, calls, wrote, mutated, index_file, owed,
                   resp, comments_lock, comments_tmp, comments_file, posted>>

\* line 155: open(tmp_path, "w") truncates the temporary file
PcOpen(t) ==
    /\ pc[t] = "pc_open"
    /\ comments_tmp' = CommentsPartial
    /\ pc' = [pc EXCEPT ![t] = "pc_dump"]
    /\ UNCHANGED <<rec, asg, inl, service, user_profiles, profiles_lock, tmp_file, dest_file, loc, val,
                   ok_records, dumped, writes, crashes, created, recorded,
                   req, calls, wrote, mutated, index_file, owed,
                   resp, comments_lock, comments_file, cstore, posted>>

\* line 156 and the close of the file
PcDump(t) ==
    /\ pc[t] = "pc_dump"
    /\ comments_tmp' = CommentsJson(cstore[t])
    /\ pc' = [pc EXCEPT ![t] = "pc_replace"]
    /\ UNCHANGED <<rec, asg, inl, service, user_profiles, profiles_lock, tmp_file, dest_file, loc, val,
                   ok_records, dumped, writes, crashes, created, recorded,
                   req, calls, wrote, mutated, index_file, owed,
                   resp, comments_lock, comments_file, cstore, posted>>

\* line 157: os.replace(tmp_path, COMMENTS_PATH)
PcReplace(t) ==
    /\ pc[t] = "pc_replace"
    /\ comments_file' = comments_tmp
    /\ comments_tmp' = NoComments
    /\ pc' = [pc EXCEPT ![t] = "pc_unlock"]
    /\ UNCHANGED <<rec, asg, inl, service, user_profiles, profiles_lock, tmp_file, dest_file, loc, val,
                   ok_records, dumped, writes, crashes, created, recorded,
                   req, calls, wrote, mutated, index_file, owed,
                   resp, comments_lock, cstore, posted>>

\* the end of the with block of line 350, and line 354
PcUnlock(t) ==
    /\ pc[t] = "pc_unlock"
    /\ comments_lock' = Released(comments_lock)
    /\ cstore' = [cstore EXCEPT ![t] = EmptyDict]
    /\ resp' = [resp EXCEPT ![t] = Response("ok", <<>>)]
    /\ pc' = [pc EXCEPT ![t] = "idle"]
    /\ UNCHANGED <<rec, asg, inl, service, user_profiles, profiles_lock, tmp_file, dest_file, loc, val,
                   ok_records, dumped, writes, crashes, created, recorded,
                   req, calls, wrote, mutated, index_file, owed,
                   comments_tmp, comments_file, posted>>

\* lines 334-336: a request for the comments of a video arrives
GetComments(t, pid) ==
    /\ Begin(t, CommentRequest("comments", pid, <<>>, <<>>))
    /\ resp' = [resp EXCEPT ![t] = NoResponse]
    /\ pc' = [pc EXCEPT ![t] = "gc_lock"]
    /\ UNCHANGED <<rec, asg, inl, service, user_profiles, profiles_lock, tmp_file, dest_file, loc, val,
                   ok_records, dumped, writes, crashes, created, recorded,
                   comments>>

\* line 337
GcLock(t) ==
    /\ pc[t] = "gc_lock"
    /\ CanAcquire(comments_lock, t)
    /\ comments_lock' = Acquired(comments_lock, t)
    /\ pc' = [pc EXCEPT ![t] = "gc_read"]
    /\ UNCHANGED <<rec, asg, inl, service, user_profiles, profiles_lock, tmp_file, dest_file, loc, val,
                   ok_records, dumped, writes, crashes, created, recorded,
                   req, calls, wrote, mutated, index_file, owed,
                   resp, comments_tmp, comments_file, cstore, posted>>

\* lines 338-340, and the end of the with block
GcRead(t) ==
    /\ pc[t] = "gc_read"
    /\ resp' = [resp EXCEPT ![t] =
                   Response("ok", DictGet(load_comments_store(comments_file),
                                          Str(req[t].pid), <<>>))]
    /\ comments_lock' = Released(comments_lock)
    /\ pc' = [pc EXCEPT ![t] = "idle"]
    /\ UNCHANGED <<rec, asg, inl, service, user_profiles, profiles_lock, tmp_file, dest_file, loc, val,
                   ok_records, dumped, writes, crashes, created, recorded,
                   req, calls, wrote, mutated, index_file, owed,
                   comments_tmp, comments_file, cstore, posted>>

\* comments.json as the service finds it
CommentFiles == {NoComments, CommentsPartial, CommentsValue}

InitComments ==
    /\ rec = NoCall
    /\ asg = NoAssign
    /\ inl = NoInline
    /\ ProfilesInit(AbsentFile, "up")
    /\ \E file \in CommentFiles : CommentsInit(file)

NextComments ==
    \E t \in Threads :
        \/ \E pid \in Pids, username \in CommentNames, text \in CommentTexts :
               PostComment(t, pid, username, text)
        \/ PcLock(t)
        \/ PcLoad(t)
        \/ PcAppend(t)
        \/ PcOpen(t)
        \/ PcDump(t)
        \/ PcReplace(t)
        \/ PcUnlock(t)
        \/ \E pid \in Pids : GetComments(t, pid)
        \/ GcLock(t)
        \/ GcRead(t)

SpecComments == InitComments /\ [][NextComments]_vars

(***************************************************************************)
(* get_recommendations of modelling/app/backend.py, which carries the      *)
(* interleave loop inline (lines 210-273), beside the call of              *)
(* recommend_with_priority_pattern(num_items=8) of modelling/backend/      *)
(* main.py on the same profile and index.  One outcome of random.shuffle   *)
(* is a permutation of positions; both calls get the same two.             *)
(***************************************************************************)
\* the 8 of lines 247, 250, 256 and 267
InlineSlots == 8

\* lists up to this length are shuffled every way, longer ones by rotation
\* and reversal
MaxShuffled == 4

\* an index with more unseen videos than a response holds
LongIndex ==
    <<[key |-> "0", vids |-> [i \in 1..4 |-> i]],
      [key |-> "1", vids |-> [i \in 1..(InlineSlots - 3) |-> 4 + i]]>>

\* LongIndex, and LongIndex with an id of the first cluster in the second too
LongIndexes == {LongIndex, [LongIndex EXCEPT ![2].vids = <<2>> \o @]}

\* the permutations random.shuffle can apply to a list of n elements
ShufflePerms(n) ==
    IF n <= MaxShuffled THEN Permutations(1..n)
    ELSE {[i \in 1..n |-> ((i + d - 1) % n) + 1] : d \in 0..(n - 1)}
         \cup {[i \in 1..n |-> n - ((i + d - 1) % n)] : d \in 0..(n - 1)}

\* the list s after the shuffle whose outcome is p
Shuffled(s, p) == [i \in DOMAIN s |-> s[p[i]]]

\* lines 211-213: the locals of the call before it loads the index
InlineNew(interactions, seen, idx) ==
    [pc |-> "prepare", k |-> 0, slot |-> 0,
     interactions |-> interactions, seen |-> Range(seen),
     videos_by_cluster |-> idx,
     pid_to_cluster |-> EmptyDict, sorted_clusters |-> <<>>,
     regular_pool |-> <<>>, priority_pool |-> <<>>,
     recommendations |-> <<>>, items |-> <<>>]

\* lines 215-226
InlinePrepare(r) ==
    IF r.videos_by_cluster = <<>> THEN [r EXCEPT !.pc = "done"]
    ELSE [r EXCEPT !.pid_to_cluster = build_pid_to_cluster_map(r.videos_by_cluster),
                   !.sorted_clusters =
                       SortedClusters(IndexKeys(r.videos_by_cluster), r.interactions),
                   !.pc = "pools"]

\* lines 235-239: priority_pool before its shuffle
InlinePriorityCandidates(r) ==
    IF r.sorted_clusters # <<>>
    THEN SelectSeq(IndexGet(r.videos_by_cluster, r.sorted_clusters[1]),
                   LAMBDA pid : pid \notin r.seen)
    ELSE <<>>

\* line 243, were the seen ids left in the regular pool
InlineRegularPoolAll(all_candidates, seen) == all_candidates

\* line 243
InlineRegularPool(all_candidates, seen) ==
    SelectSeq(all_candidates, LAMBDA pid : pid \notin seen)

\* lines 229-246, the shuffles having had outcomes p1 and p2
InlinePools(r, p1, p2) ==
    [r EXCEPT !.regular_pool =
                  InlineRegularPool(Shuffled(AllCandidates(r.videos_by_cluster), p1),
                                    r.seen),
              !.priority_pool = Shuffled(InlinePriorityCandidates(r), p2),
              !.slot = 0,
              !.pc = "test"]

\* line 247
InlineTest(r) ==
    IF /\ Len(r.recommendations) < InlineSlots
       /\ (r.regular_pool # <<>> \/ r.priority_pool # <<>>)
    THEN [r EXCEPT !.pc = "regular", !.k = 0]
    ELSE [r EXCEPT !.pc = "items"]

\* lines 249-255: one iteration of `for _ in range(2)`
InlineRegularSlot(r) ==
    IF Len(r.recommendations) >= InlineSlots
    THEN [r EXCEPT !.pc = "after_for"]
    ELSE LET pool == SkipSelected(r.regular_pool, r.recommendations)
         IN  IF pool # <<>>
             THEN [r EXCEPT !.recommendations = Append(@, Head(pool)),
                            !.regular_pool = Tail(pool),
                            !.k = @ + 1,
                            !.pc = IF r.k = 1 THEN "after_for" ELSE "regular"]
             ELSE [r EXCEPT !.regular_pool = pool,
                            !.k = @ + 1,
                            !.pc = IF r.k = 1 THEN "after_for" ELSE "regular"]

\* lines 256-257
InlineAfterFor(r) ==
    [r EXCEPT !.pc = IF Len(r.recommendations) >= InlineSlots THEN "items"
                     ELSE "priority"]

\* lines 259-263
InlinePrioritySlot(r) ==
    LET pool == SkipSelected(r.priority_pool, r.recommendations)
    IN  IF pool # <<>>
        THEN [r EXCEPT !.recommendations = Append(@, Head(pool)),
                       !.priority_pool = Tail(pool),
                       !.slot = @ + 1,
                       !.pc = "test"]
        ELSE [r EXCEPT !.priority_pool = pool, !.slot = @ + 1, !.pc = "test"]

\* lines 266-273
InlineItems(r) ==
    LET kept == SubSeq(r.recommendations, 1,
                       IF Len(r.recommendations) < InlineSlots
                       THEN Len(r.recommendations) ELSE InlineSlots)
    IN  [r EXCEPT !.items =
                      [i \in DOMAIN kept |->
                          [pid |-> kept[i],
                           cluster_label |->
                               IF kept[i] \in DOMAIN r.pid_to_cluster
                               THEN r.pid_to_cluster[kept[i]] ELSE -1]],
                  !.pc = "done"]

InitInline ==
    /\ \E interactions \in InteractionDicts, seen \in {<<>>, <<1>>, <<2, 3>>},
          idx \in Indexes \cup LongIndexes :
           /\ rec = NewCall(interactions, seen, idx, NumItems)
           /\ inl = InlineNew(interactions, seen, idx)
    /\ StoreInit
    /\ asg = NoAssign

\* both calls up to their shuffles
BothPrepare ==
    /\ rec.pc = "prepare"
    /\ rec' = Prepare(rec)
    /\ inl' = InlinePrepare(inl)
    /\ UNCHANGED <<asg, comments, store>>

\* the two shuffles of each call, with the same outcomes p1 and p2; were the
\* priority candidates of the two calls of different lengths, the inline call
\* would have an outcome q of its own
BothShuffle ==
    /\ rec.pc = "pools"
    /\ LET candidates == PriorityCandidates(rec.videos_by_cluster,
                             TopCluster(rec.sorted_clusters), rec.seen_set)
           own == InlinePriorityCandidates(inl)
       IN  \E p1 \in ShufflePerms(Len(AllCandidates(rec.videos_by_cluster))),
              p2 \in ShufflePerms(Len(candidates)),
              q \in ShufflePerms(Len(own)) :
                /\ Len(own) = Len(candidates) => q = p2
                /\ rec' = BuildPools(rec,
                              Shuffled(AllCandidates(rec.videos_by_cluster), p1),
                              Shuffled(candidates, p2))
                /\ inl' = IF inl.pc = "pools" THEN InlinePools(inl, p1, q) ELSE inl
    /\ UNCHANGED <<asg, comments, store>>

\* the inline call runs once recommend_with_priority_pattern has returned
InlTest ==
    /\ rec.pc = "done" /\ inl.pc = "test"
    /\ inl' = InlineTest(inl)
    /\ UNCHANGED <<rec, asg, comments, store>>

InlRegularSlot ==
    /\ rec.pc = "done" /\ inl.pc = "regular"
    /\ inl' = InlineRegularSlot(inl)
    /\ UNCHANGED <<rec, asg, comments, store>>

InlAfterFor ==
    /\ rec.pc = "done" /\ inl.pc = "after_for"
    /\ inl' = InlineAfterFor(inl)
    /\ UNCHANGED <<rec, asg, comments, store>>

InlPrioritySlot ==
    /\ rec.pc = "done" /\ inl.pc = "priority"
    /\ inl' = InlinePrioritySlot(inl)
    /\ UNCHANGED <<rec, asg, comments, store>>

InlItems ==
    /\ rec.pc = "done" /\ inl.pc = "items"
    /\ inl' = InlineItems(inl)
    /\ UNCHANGED <<rec, asg, comments, store>>

NextInline ==
    \/ BothPrepare
    \/ BothShuffle
    \/ RecLoopTest
    \/ RecRegularSlot
    \/ RecAfterFor
    \/ RecPrioritySlot
    \/ RecEmit
    \/ InlTest
    \/ InlRegularSlot
    \/ InlAfterFor
    \/ InlPrioritySlot
    \/ InlItems

SpecInline == InitInline /\ [][NextInline]_vars

(***************************************************************************)
(* predict_with_fallback of internal_logics/fallback.py.  The transformed  *)
(* point is a vector of two coordinates; centroids_df is a list of rows    *)
(* [label, point] in the order of the table, label being the row's index   *)
(* value.                                                                  *)
(***************************************************************************)
Coordinates == {0, 1, 10}

Points == Coordinates \X Coordinates

CentroidLabels == {0, 1, 2}

CentroidTables ==
    {tb \in UNION {[1..m -> [label : CentroidLabels, point : Points]] : m \in 0..MaxRows} :
        \A i, j \in DOMAIN tb : i # j => tb[i].label # tb[j].label}

\* what a caller passes for allowed_labels: nothing, or a set of labels
NotGiven == [given |-> FALSE, labels |-> {}]

AllowedChoices ==
    {NotGiven} \cup {[given |-> TRUE, labels |-> S] : S \in SUBSET (CentroidLabels \cup {5})}

\* the square of the Euclidean distance of line 11; the square root keeps the
\* order of the distances and their ties
SqDistance(p, q) == (p[1] - q[1]) * (p[1] - q[1]) + (p[2] - q[2]) * (p[2] - q[2])

\* line 11: the distances from the point to the rows of the table
Distances(point, centroids) ==
    [i \in DOMAIN centroids |-> SqDistance(point, centroids[i].point)]

\* line 13: np.argmin returns the first occurrence of the minimum
ArgMin(d) ==
    CHOOSE i \in DOMAIN d :
        /\ \A j \in DOMAIN d : d[i] <= d[j]
        /\ \A j \in DOMAIN d : j < i => d[j] > d[i]

\* lines 11-16, for a table with at least one row
predict_with_fallback(point, centroids) ==
    centroids[ArgMin(Distances(point, centroids))].label

\* a call, before its first statement
NewAssign(point, centroids, allowed) ==
    [pc |-> "call", point |-> point, centroids |-> centroids, allowed |-> allowed,
     status |-> "none", label |-> 0]

\* the function takes three arguments (line 4): a call that passes
\* allowed_labels as well raises TypeError; pairwise_distances refuses a table
\* without rows with ValueError (line 11)
AssignCall ==
    /\ asg.pc = "call"
    /\ \/ /\ asg.allowed.given
          /\ asg' = [asg EXCEPT !.pc = "done", !.status = "TypeError"]
       \/ /\ ~asg.allowed.given
          /\ asg.centroids = <<>>
          /\ asg' = [asg EXCEPT !.pc = "done", !.status = "ValueError"]
       \/ /\ ~asg.allowed.given
          /\ asg.centroids # <<>>
          /\ asg' = [asg EXCEPT !.pc = "done", !.status = "ok",
                                !.label = predict_with_fallback(asg.point, asg.centroids)]
    /\ UNCHANGED <<rec, inl, comments, store>>

InitAssign ==
    /\ rec = NoCall
    /\ inl = NoInline
    /\ StoreInit
    /\ \E point \in Points, centroids \in CentroidTables, allowed \in AllowedChoices :
           asg = NewAssign(point, centroids, allowed)

NextAssign == AssignCall

SpecAssign == InitAssign /\ [][NextAssign]_vars

(***************************************************************************)
(* Properties of recommend_with_priority_pattern (SpecRecommend).          *)
(***************************************************************************)
\* the ids a finished call returns
ReturnedPids == {rec.items[i].pid : i \in DOMAIN rec.items}

\* the distinct ids of the index that are not in seen_videos
DistinctUnseen == Range(AllCandidates(rec.videos_by_cluster)) \ Range(rec.seen)

Min(a, b) == IF a < b THEN a ELSE b

\* C1: every video id returned by recommend is absent from the seen_videos of
\* the profile that was passed in (and no seen id is selected at any point of
\* the call).
C1_Exclusion ==
    /\ Range(rec.ordered) \cap Range(rec.seen) = {}
    /\ rec.pc = "done" => ReturnedPids \cap Range(rec.seen) = {}

\* a call that returned something although the index holds videos already seen
C1_Witness ==
    /\ rec.pc = "done"
    /\ rec.items # <<>>
    /\ Range(rec.seen) \cap Range(AllCandidates(rec.videos_by_cluster)) # {}

\* C2: for a count N >= 0, recommend returns min(N, number of distinct unseen
\* ids of the index) items: never more than N, and fewer than N only when
\* fewer than N distinct unseen ids exist, also when ids repeat inside or
\* across clusters.  (A negative count, which no length can stay under, gives
\* the empty list.)
C2_BoundedOutput ==
    rec.pc = "done" =>
        /\ rec.num_items >= 0 =>
              Len(rec.items) = Min(rec.num_items, Cardinality(DistinctUnseen))
        /\ rec.num_items < 0 => rec.items = <<>>

\* Scenario D with the ids 1, 2, 3: index {"0": [1, 2], "1": [3]}, cluster "0"
\* the most interacted, video 1 seen, more items asked for than there are
C2_Witness ==
    /\ rec.pc = "done"
    /\ rec.videos_by_cluster =
           <<[key |-> "0", vids |-> <<1, 2>>], [key |-> "1", vids |-> <<3>>]>>
    /\ rec.seen = <<1>>
    /\ DOMAIN rec.interactions = {"0"}
    /\ rec.num_items = 3
    /\ ReturnedPids = {2, 3}
    /\ Len(rec.items) = 2

\* C3: the list returned by recommend contains no video id twice.
C3_NoRepeat ==
    rec.pc = "done" =>
        \A i, j \in DOMAIN rec.items : i # j => rec.items[i].pid # rec.items[j].pid

\* a call that returned two items, one of them an id the index lists twice
C3_Witness ==
    /\ rec.pc = "done"
    /\ Len(rec.items) >= 2
    /\ LET all == AllCandidates(rec.videos_by_cluster)
       IN  \E i, j \in DOMAIN all : i # j /\ all[i] = all[j] /\ all[i] \in ReturnedPids

(***************************************************************************)
(* Properties of the profile store (Spec, SpecCrash).                      *)
(***************************************************************************)
\* the positions of record_interaction after its increment is written
AfterIncrement ==
    {"ri_seen", "ri_liked", "sv_lock", "sv_open", "sv_dump", "sv_replace",
     "sv_unlock", "ri_unlock"}

\* thread w is inside a record call that has incremented the count of user u
\* and has not yet added its video to both lists
MidRecord(w, u) ==
    /\ req[w].op = "record"
    /\ req[w].username = u
    /\ pc[w] \in {"ri_seen", "ri_liked"}

\* thread r has read, without the lock, the profile of a user whose record
\* call by thread w is half applied: the count it read includes the increment,
\* the lists it read lack the video
PartialRead(r, w) ==
    LET u == req[r].username
    IN  /\ r # w
        /\ u \in DOMAIN user_profiles
        /\ MidRecord(w, u)
        /\ \/ /\ req[r].op = "get"
              /\ resp[r].status = "ok"
              /\ resp[r].body.cluster_interactions = user_profiles[u].cluster_interactions
              /\ \/ req[w].pid \notin Range(resp[r].body.seen_videos)
                 \/ req[w].pid \notin Range(resp[r].body.liked_videos)
           \/ /\ req[r].op = "recommend"
              /\ pc[r] = "gr_run"
              /\ loc[r].interactions = user_profiles[u].cluster_interactions
              /\ req[w].pid \notin loc[r].seen_set

\* C4: the three updates of one record call are atomic to every observer: no
\* get-user or get-recommendations call reads a profile whose count has been
\* incremented by a call whose video is not yet in seen_videos or liked_videos.
C4_AtomicRecord == \A r, w \in Threads : ~PartialRead(r, w)

\* record calls of user u and cluster key c that have written their increment
\* and not yet returned
InFlight(u, c) ==
    {t \in Threads :
        /\ req[t].op = "record"
        /\ req[t].username = u
        /\ Str(req[t].cluster_label) = c
        /\ pc[t] \in AfterIncrement}

\* C5: record calls are linearized with no lost update: each count of each
\* user equals the number of record calls for that user and cluster label that
\* returned ok, plus those that have incremented and not yet returned (none
\* once the calls are over); an absent entry counts as 0.
C5_NoLostUpdate ==
    \A u \in DOMAIN user_profiles, c \in ClusterKeys :
        DictGet(user_profiles[u].cluster_interactions, c, 0)
            = DictGet(ok_records, <<u, c>>, 0) + Cardinality(InFlight(u, c))

\* two threads have each finished a record call for the same user and cluster
C5_Witness ==
    \E t1, t2 \in Threads :
        /\ t1 # t2
        /\ req[t1].op = "record" /\ req[t2].op = "record"
        /\ resp[t1].status = "ok" /\ resp[t2].status = "ok"
        /\ req[t1].username = req[t2].username
        /\ req[t1].cluster_label = req[t2].cluster_label
        /\ user_profiles[req[t1].username]
               .cluster_interactions[Str(req[t1].cluster_label)] = 2

NoTwice(list) == \A i, j \in DOMAIN list : i # j => list[i] # list[j]

\* C6: from an empty store, under every interleaving of create and record
\* calls, seen_videos and liked_videos of every profile hold each id at most
\* once.
C6_NoDuplicates ==
    \A u \in DOMAIN user_profiles :
        NoTwice(user_profiles[u].seen_videos) /\ NoTwice(user_profiles[u].liked_videos)

\* a user for whom two record calls of the same video have returned
C6_Witness ==
    \E u \in DOMAIN user_profiles :
        /\ \E c1, c2 \in ClusterKeys :
              DictGet(ok_records, <<u, c1>>, 0) + (IF c1 # c2 THEN DictGet(ok_records, <<u, c2>>, 0) ELSE 0) >= 2
        /\ Len(user_profiles[u].seen_videos) = 1
        /\ Len(user_profiles[u].liked_videos) = 1

\* create calls that have inserted a profile and not yet replaced the file
Inserting ==
    {t \in Threads :
        req[t].op = "create" /\ pc[t] \in {"sv_lock", "sv_open", "sv_dump", "sv_replace"}}

\* every replacement of the file by a create call belongs to one profile
CreateWritesOnce ==
    writes["create"] + Cardinality(Inserting) = Cardinality(DOMAIN user_profiles)

\* a step of a create call leaves every existing profile as it is, and the
\* call returns the profile of its username
CreateKeepsProfiles ==
    \A t \in Threads :
        (req[t].op = "create" /\ pc[t] # "idle" /\ pc'[t] # pc[t]) =>
            /\ \A u \in DOMAIN user_profiles :
                  u \in DOMAIN user_profiles' /\ user_profiles'[u] = user_profiles[u]
            /\ (pc[t] = "cu_check" /\ req[t].username \in DOMAIN user_profiles) =>
                  /\ pc'[t] = "cu_unlock"
                  /\ ~wrote'[t]
                  /\ UNCHANGED <<user_profiles, tmp_file, dest_file>>
            /\ pc[t] = "cu_ret" =>
                  /\ resp'[t].status = "ok"
                  /\ resp'[t].body = user_profiles[req[t].username]
                  /\ ~mutated[t] => ~wrote[t]

\* C7: creating a username that already has a profile returns the existing
\* profile unchanged and performs no persistence write, also when create calls
\* for one username run concurrently: exactly one of them inserts and writes.
C7_CreateIdempotent == []CreateWritesOnce /\ [][CreateKeepsProfiles]_vars

\* a create call has returned, without inserting, a profile that holds a
\* recorded interaction
C7_Witness ==
    \E t \in Threads :
        /\ req[t].op = "create"
        /\ resp[t].status = "ok"
        /\ ~mutated[t]
        /\ resp[t].body.seen_videos # <<>>
        /\ writes["create"] = 1

\* the steps of a record call up to its lookup write nothing, and the lookup
\* refuses exactly the usernames without a profile
RecordUnknownStep ==
    \A t \in Threads :
        (req'[t].op = "record" /\ pc'[t] # pc[t]
            /\ (pc'[t] \in {"ri_lock", "ri_lookup"} \/ pc[t] = "ri_lookup")) =>
            /\ UNCHANGED <<user_profiles, tmp_file, dest_file, writes>>
            /\ pc[t] = "ri_lookup" =>
                  IF req[t].username \in DOMAIN user_profiles
                  THEN pc'[t] = "ri_read" /\ resp'[t].status = "none"
                  ELSE pc'[t] = "idle" /\ resp'[t].status = "404"

\* a refused record call has changed and written nothing
RefusedRecordIsIdle ==
    \A t \in Threads :
        (req[t].op = "record" /\ resp[t].status = "404") =>
            pc[t] = "idle" /\ ~wrote[t] /\ ~mutated[t]

\* C8: recording an interaction for a username without a profile fails with
\* 404, leaves the in-memory collection unchanged (no profile is created) and
\* performs no persistence write.
C8_RecordUnknownUser == []RefusedRecordIsIdle /\ [][RecordUnknownStep]_vars

\* a record call was refused while the store holds another user's profile
C8_Witness ==
    \E t \in Threads :
        /\ req[t].op = "record"
        /\ resp[t].status = "404"
        /\ req[t].username \notin DOMAIN user_profiles
        /\ user_profiles # NoProfiles

\* the collection a restart would load
OnDisk == load_user_profiles(dest_file)

\* the mutation of the finished call of thread t is in collection p
Holds(p, t) ==
    LET u == req[t].username
    IN  /\ u \in DOMAIN p
        /\ req[t].op = "record" =>
              /\ req[t].pid \in Range(p[u].seen_videos)
              /\ req[t].pid \in Range(p[u].liked_videos)
              /\ DictGet(p[u].cluster_interactions, Str(req[t].cluster_label), 0) >= 1

\* C9: every successful mutation is persisted before it completes: when save
\* returns inside a create or record call the file equals the in-memory
\* collection, and from the moment such a call returns success the file holds
\* its mutation, so that a restart yields a collection containing it; the file
\* is never behind the record calls that returned ok.
C9_PersistedBeforeReturn ==
    /\ \A t \in Threads :
          /\ pc[t] \in {"sv_unlock", "ri_unlock"} => dest_file = JsonFile(user_profiles)
          /\ (pc[t] = "cu_unlock" /\ mutated[t]) => dest_file = JsonFile(user_profiles)
          /\ (req[t].op \in {"create", "record"} /\ resp[t].status = "ok") =>
                Holds(OnDisk, t)
    /\ profiles_lock = FreeLock => OnDisk = user_profiles
    /\ \A u \in PathNames, c \in ClusterKeys :
          DictGet(ok_records, <<u, c>>, 0) > 0 =>
              /\ u \in DOMAIN OnDisk
              /\ OnDisk[u].cluster_interactions[c] >= ok_records[<<u, c>>]

\* the process was interrupted after a record call had returned ok, and the
\* restart has loaded the recorded interaction
C9_Witness ==
    /\ crashes = 1
    /\ \A t \in Threads : pc[t] = "idle" /\ req[t] = NoRequest
    /\ \E u \in DOMAIN user_profiles, c \in ClusterKeys :
          /\ DictGet(ok_records, <<u, c>>, 0) = 1
          /\ DictGet(user_profiles[u].cluster_interactions, c, 0) = 1
          /\ user_profiles[u].seen_videos # <<>>

\* C10: the persisted profile file is never partially written: in every
\* state, process interruptions included, user_profiles.json is absent or the
\* complete JSON of the collection as json.dump wrote it at some save; only
\* the temporary file can be incomplete.
C10_NeverPartial ==
    /\ dest_file.kind \in {"absent", "json"}
    /\ dest_file.kind = "json" => dest_file.data \in dumped

\* the process was interrupted inside a save: the temporary file is
\* incomplete beside a complete user_profiles.json
C10_Witness ==
    /\ crashes = 1
    /\ tmp_file.kind = "partial"
    /\ dest_file.kind = "json"
    /\ \A t \in Threads : pc[t] = "idle"

(***************************************************************************)
(* Properties of startup (SpecLoad).                                       *)
(***************************************************************************)
\* C11: startup never fails because of the persisted snapshot: once lifespan
\* has run the service is up, with the empty collection if user_profiles.json
\* is absent, does not parse or parses to a value that is not an object, and
\* with the collection of the snapshot otherwise.
C11_StartupNeverFails ==
    service # "starting" =>
        /\ service = "up"
        /\ user_profiles = IF dest_file.kind = "json" THEN dest_file.data ELSE NoProfiles

\* the same, for the files whose bytes are text
C11_TextSnapshot ==
    (service # "starting" /\ dest_file.kind # "bytes") =>
        /\ service = "up"
        /\ user_profiles = IF dest_file.kind = "json" THEN dest_file.data ELSE NoProfiles

(***************************************************************************)
(* Properties of the interleave (SpecPattern).                             *)
(***************************************************************************)
\* the list of the top cluster
TopList(r) ==
    IF TopCluster(r.sorted_clusters) = "none" THEN <<>>
    ELSE IndexGet(r.videos_by_cluster, TopCluster(r.sorted_clusters))

\* the top cluster has an unseen id that is not among the first p - 1 items
PriorityDue(r, p) ==
    \E v \in Range(TopList(r)) \ r.seen_set :
        \A i \in 1..(p - 1) : i \in DOMAIN r.items => r.items[i].pid # v

\* a step of the loop appends nothing, or one id that is not yet selected: in a
\* regular slot (at most 2 in a round) from the regular pool, in the priority
\* slot from the priority pool
RoundStep ==
    /\ rec.pc \notin {"regular", "priority"} => rec'.ordered = rec.ordered
    /\ rec.pc = "regular" =>
          /\ rec.k < 2
          /\ \/ rec'.ordered = rec.ordered
             \/ \E v \in Range(rec.regular_pool) \ Range(rec.ordered) :
                    rec'.ordered = Append(rec.ordered, v)
    /\ rec.pc = "priority" =>
          /\ rec.k = 2
          /\ \/ rec'.ordered = rec.ordered
             \/ \E v \in Range(rec.priority_pool) \ Range(rec.ordered) :
                    rec'.ordered = Append(rec.ordered, v)

\* the 3rd and the 6th item are of the top cluster when one is due
ThirdAndSixth ==
    rec.pc = "done" =>
        \A p \in {3, 6} :
            (rec.num_items >= p /\ PriorityDue(rec, p)) =>
                /\ Len(rec.items) >= p
                /\ rec.items[p].pid \in Range(TopList(rec))

\* C12: recommend fills its output two-regular-then-one-priority: every round
\* appends up to 2 not-yet-selected ids of the regular pool and then 1
\* not-yet-selected id of the priority pool, so the 3rd and the 6th returned
\* item belong to the top cluster whenever the top cluster still has an unseen
\* id that was not selected earlier in the call.
C12_Pattern == []ThirdAndSixth /\ [][RoundStep]_vars

\* a call returned at least 6 items: the 3rd and the 6th are of the top
\* cluster "1", the 1st, 2nd and 4th of cluster "0" alone
C12_Witness ==
    /\ rec.pc = "done"
    /\ TopCluster(rec.sorted_clusters) = "1"
    /\ Len(rec.items) >= 6
    /\ PriorityDue(rec, 3) /\ PriorityDue(rec, 6)
    /\ \A i \in {1, 2, 4} : rec.items[i].pid \notin Range(TopList(rec))
    /\ \A i \in {3, 6} : rec.items[i].pid \in Range(TopList(rec))

(***************************************************************************)
(* Properties of the ranking and of the labels (SpecRecommend, SpecLabels).*)
(***************************************************************************)
\* the count of cluster key c in the profile, 0 if absent
CountOf(r, c) == DictGet(r.interactions, c, 0)

\* the pools of the call are built
PoolsBuilt(r) == r.pc \in {"test", "regular", "after_for", "priority", "emit", "done"}

\* C13: the top cluster is a cluster of the index whose interaction count in
\* the profile is greater than or equal to that of every other cluster of the
\* index, an absent count being 0; the priority pool is built from the unseen
\* ids of that cluster's list, and every id in it belongs to that list.
C13_TopCluster ==
    (PoolsBuilt(rec) /\ rec.videos_by_cluster # <<>>) =>
        LET top == TopCluster(rec.sorted_clusters)
        IN  /\ top \in Range(IndexKeys(rec.videos_by_cluster))
            /\ \A c \in Range(IndexKeys(rec.videos_by_cluster)) :
                   CountOf(rec, top) >= CountOf(rec, c)
            /\ Range(rec.priority_pool) \subseteq
                   Range(IndexGet(rec.videos_by_cluster, top)) \ rec.seen_set
            /\ (rec.pc = "test" /\ rec.ordered = <<>>) =>
                   Range(rec.priority_pool) =
                       Range(IndexGet(rec.videos_by_cluster, top)) \ rec.seen_set

\* the pools were just built for an index of two clusters; the second one in
\* index order has the greater count and gives a priority pool of two ids
C13_Witness ==
    /\ rec.pc = "test" /\ rec.ordered = <<>>
    /\ Len(rec.videos_by_cluster) = 2
    /\ CountOf(rec, rec.videos_by_cluster[2].key) > CountOf(rec, rec.videos_by_cluster[1].key)
    /\ TopCluster(rec.sorted_clusters) = rec.videos_by_cluster[2].key
    /\ Cardinality(Range(rec.priority_pool)) = 2
    /\ rec.seen_set # {}

\* the positions in the index of the clusters with an integer label whose
\* list holds pid
Holders(idx, pid) ==
    {j \in DOMAIN idx : IsIntKey(idx[j].key) /\ pid \in Range(idx[j].vids)}

\* the greatest element of a non-empty set of positions
Last(S) == CHOOSE j \in S : \A i \in S : i <= j

C14_Sentinel ==
    /\ rec.pc = "done"
    /\ \E i, j \in DOMAIN rec.items :
           /\ rec.items[i].cluster_label = -1
           /\ rec.items[i].pid \in Range(IndexGet(rec.videos_by_cluster, "x"))
           /\ rec.items[j].cluster_label = 1

(***************************************************************************)
(* Properties of the handlers (Spec).                                      *)
(***************************************************************************)
\* the step is one of a call of get_recommendations by thread t: the call
\* begins, or t leaves a position of the handler
RecommendStep(t) ==
    \/ pc[t] = "idle" /\ pc'[t] = "gr_lookup"
    \/ /\ pc[t] \in {"gr_lookup", "gr_load", "gr_sort", "gr_seen", "gr_run"}
       /\ pc'[t] # pc[t]

\* the step leaves the index the call works on as it was read
IndexKept(t) ==
    /\ pc[t] \in {"gr_sort", "gr_seen"} =>
          loc'[t].videos_by_cluster = loc[t].videos_by_cluster
    /\ pc[t] \in {"gr_sort", "gr_seen", "gr_run"} => index_file'[t] = index_file[t]

RecommendFrame ==
    \A t \in Threads :
        RecommendStep(t) =>
            /\ user_profiles' = user_profiles
            /\ dest_file' = dest_file
            /\ tmp_file' = tmp_file
            /\ IndexKept(t)

\* C15: generating recommendations mutates nothing: no step of a call of
\* get_recommendations changes a profile (the user's or another), the index
\* the call read, or the persisted snapshot.
C15_RecommendMutatesNothing == [][RecommendFrame]_vars

\* a call returned recommendations to a user whose profile holds a count, a
\* seen and a liked video and is persisted
C15_Witness ==
    \E t \in Threads :
        /\ req[t].op = "recommend" /\ pc[t] = "idle"
        /\ resp[t].status = "ok" /\ resp[t].body # <<>>
        /\ req[t].username \in DOMAIN user_profiles
        /\ user_profiles[req[t].username].seen_videos # <<>>
        /\ user_profiles[req[t].username].liked_videos # <<>>
        /\ dest_file = JsonFile(user_profiles)

\* thread t's call of get_recommendations for an existing user found the
\* index file absent, or holding the empty object
FoundNoIndex(t) ==
    /\ req[t].op = "recommend" /\ pc[t] = "idle"
    /\ \/ index_file[t].kind = "absent"
       \/ index_file[t].kind = "json" /\ index_file[t].data = <<>>

\* C16: for an existing user, when the cluster -> video index is empty or its
\* file is absent, get_recommendations returns the empty list and no error.
C16_EmptyIndex ==
    \A t \in Threads : FoundNoIndex(t) => resp[t] = Response("ok", <<>>)

\* one call found no index file and another one an empty index; both returned
\* the empty list
C16_Witness ==
    \E t1, t2 \in Threads :
        /\ FoundNoIndex(t1) /\ index_file[t1].kind = "absent"
        /\ FoundNoIndex(t2) /\ index_file[t2].kind = "json"
        /\ resp[t1] = Response("ok", <<>>) /\ resp[t2] = Response("ok", <<>>)
        /\ req[t1].username \in DOMAIN user_profiles
        /\ req[t2].username \in DOMAIN user_profiles

\* C17: in every state reachable from the empty store by create and record
\* calls, the liked_videos of each profile is a subset of its seen_videos.
C17_LikedSubsetSeen ==
    \A u \in DOMAIN user_profiles :
        Range(user_profiles[u].liked_videos) \subseteq Range(user_profiles[u].seen_videos)

\* a profile with two liked videos, both seen
C17_Witness ==
    \E u \in DOMAIN user_profiles :
        /\ Cardinality(Range(user_profiles[u].liked_videos)) = 2
        /\ Range(user_profiles[u].seen_videos) = Range(user_profiles[u].liked_videos)

\* the counts of profile u
CountsOf(profiles, u) == profiles[u].cluster_interactions

\* every count is that of at least one interaction
CountsNonNegative ==
    \A u \in DOMAIN user_profiles :
        \A c \in DOMAIN CountsOf(user_profiles, u) : CountsOf(user_profiles, u)[c] >= 0

\* a step keeps every profile and every entry, with a count that is not less
CountsGrow ==
    \A u \in DOMAIN user_profiles :
        /\ u \in DOMAIN user_profiles'
        /\ \A c \in DOMAIN CountsOf(user_profiles, u) :
               /\ c \in DOMAIN CountsOf(user_profiles', u)
               /\ CountsOf(user_profiles', u)[c] >= CountsOf(user_profiles, u)[c]

\* C18: interaction counts only grow: in every step of the running service
\* each entry cluster_interactions[c] of each profile is non-negative, does not
\* decrease and is not removed.
C18_CountsOnlyGrow == []CountsNonNegative /\ [][CountsGrow]_vars

\* a count has grown to 2 beside the other profile's entry
C18_Witness ==
    \E u \in DOMAIN user_profiles, c \in ClusterKeys :
        /\ c \in DOMAIN CountsOf(user_profiles, u)
        /\ CountsOf(user_profiles, u)[c] = 2
        /\ ok_records # EmptyDict

\* thread t's lookup of a profile (lines 86-88) refuses the call
NotFoundStep(t) ==
    /\ pc[t] \in {"gu_get", "gr_lookup", "ri_lookup"}
    /\ pc'[t] = "idle"
    /\ resp'[t].status = "404"

\* a profile that create_user has returned is in the collection
CreatedPresent == created \subseteq DOMAIN user_profiles

\* no step removes a profile, and no lookup refuses a username for which
\* create_user has returned
NeverNotFound ==
    /\ DOMAIN user_profiles \subseteq DOMAIN user_profiles'
    /\ \A t \in Threads : NotFoundStep(t) => req[t].username \notin created

\* C19: the running service never deletes a profile: once create_user has
\* returned a profile for a username, every later get_user, record_interaction
\* and get_recommendations for that username finds the profile.
C19_NeverDeleted == []CreatedPresent /\ [][NeverNotFound]_vars

\* after create_user returned for a username, a later call for it found the
\* profile, and a call for another username was refused
C19_Witness ==
    \E t1, t2 \in Threads :
        /\ pc[t1] = "idle" /\ req[t1].op \in {"get", "record", "recommend"}
        /\ req[t1].username \in created
        /\ resp[t1].status = "ok"
        /\ pc[t2] = "idle" /\ resp[t2].status = "404"
        /\ req[t2].username \notin DOMAIN user_profiles

\* a username that is empty or holds only whitespace
Blank(username) == \A i \in DOMAIN username : username[i] = " "

\* a create call with a blank username is over, with 400 and without effect
BlankCreateRefused ==
    /\ \A t \in Threads :
           (req[t].op = "create" /\ Blank(req[t].username)) =>
               /\ pc[t] = "idle"
               /\ resp[t] = Response("400", <<>>)
               /\ ~wrote[t] /\ ~mutated[t]
    /\ \A u \in DOMAIN user_profiles : ~Blank(u)
    /\ \A u \in DOMAIN OnDisk : ~Blank(u)

\* the step that takes such a call changes neither the collection nor a file
BlankCreateStep ==
    \A t \in Threads :
        (pc[t] = "idle" /\ calls' = calls + 1
           /\ req'[t].op = "create" /\ Blank(req'[t].username)) =>
            /\ user_profiles' = user_profiles
            /\ dest_file' = dest_file /\ tmp_file' = tmp_file
            /\ writes' = writes

\* C20: create_user with an empty or whitespace-only username fails with 400,
\* adds no profile to the collection and writes nothing to user_profiles.json.
C20_BlankUsername == []BlankCreateRefused /\ [][BlankCreateStep]_vars

\* a create call with a blank username was refused while the collection holds
\* a profile that an earlier create call persisted
C20_Witness ==
    \E t \in Threads :
        /\ req[t].op = "create" /\ req[t].username = <<>>
        /\ resp[t].status = "400"
        /\ user_profiles # NoProfiles
        /\ writes["create"] = 1
        /\ dest_file = JsonFile(user_profiles)

(***************************************************************************)
(* Properties of predict_with_fallback (SpecAssign).                       *)
(***************************************************************************)
\* the rows of the table of the call at minimum distance from its point
Nearest(a) ==
    {i \in DOMAIN a.centroids :
        \A j \in DOMAIN a.centroids :
            SqDistance(a.point, a.centroids[i].point) <=
                SqDistance(a.point, a.centroids[j].point)}

\* C21: the label returned is that of a centroid at minimum Euclidean distance
\* from the point, and the lowest label among the centroids at that distance,
\* whatever the order of the rows of the table.
C21_NearestLowestLabel ==
    (asg.pc = "done" /\ asg.status = "ok") =>
        /\ \E i \in Nearest(asg) : asg.centroids[i].label = asg.label
        /\ \A i \in Nearest(asg) : asg.label <= asg.centroids[i].label

\* the part that holds: the label is that of a nearest centroid, the first of
\* them in the order of the rows
C21_NearestFirstRow ==
    (asg.pc = "done" /\ asg.status = "ok") =>
        /\ \E i \in Nearest(asg) : asg.centroids[i].label = asg.label
        /\ \A i \in Nearest(asg) :
               \E j \in Nearest(asg) : j <= i /\ asg.centroids[j].label = asg.label

\* Scenario A: table {0: [0, 0], 1: [10, 10]}, point [1, 1], label 0
C21_ScenarioA ==
    /\ asg.pc = "done" /\ asg.status = "ok"
    /\ asg.point = <<1, 1>>
    /\ asg.centroids = <<[label |-> 0, point |-> <<0, 0>>],
                         [label |-> 1, point |-> <<10, 10>>]>>
    /\ asg.label = 0

\* the labels of the table of the call
TableLabels(a) == {a.centroids[i].label : i \in DOMAIN a.centroids}

\* the labels of the centroids the call is to search
SearchLabels(a) ==
    IF a.allowed.given THEN TableLabels(a) \cap a.allowed.labels ELSE TableLabels(a)

\* C22: when allowed_labels is supplied the search is over the centroids whose
\* label is in allowed_labels: the call returns a label, and that label is a
\* member of allowed_labels, even when a centroid outside it is nearer.
C22_AllowedLabels ==
    (asg.pc = "done" /\ asg.allowed.given /\ SearchLabels(asg) # {}) =>
        /\ asg.status = "ok"
        /\ asg.label \in asg.allowed.labels

\* C23: when the set of centroids to search is empty (an empty table, or
\* allowed_labels that does not meet the table) the call fails with the error
\* of having no centroid, and returns no label.
C23_NoCentroids ==
    (asg.pc = "done" /\ SearchLabels(asg) = {}) => asg.status = "ValueError"

\* the part that holds: on a table without rows the call fails with the error of
\* line 11
C23_EmptyTable ==
    (asg.pc = "done" /\ ~asg.allowed.given /\ asg.centroids = <<>>) =>
        asg.status = "ValueError"


\* the pids of a returned list of items
PidsOf(items) == {items[i].pid : i \in DOMAIN items}

\* thread t has returned from get_recommendations with a list
Recommended(t) ==
    /\ pc[t] = "idle"
    /\ req[t].op = "recommend"
    /\ resp[t].status = "ok"

\* C24: a call of get_recommendations for u that began after
\* record_interaction(u, v, c) returned ok, whatever ran in between
\* (restarts included), returns a list without v
C24_RecordedNeverRecommended ==
    \A t \in Threads :
        Recommended(t) => PidsOf(resp[t].body) \cap owed[t] = {}

\* a call that began after a record for its user returned a non-empty list
C24_Witness ==
    \E t \in Threads :
        /\ Recommended(t)
        /\ owed[t] # {}
        /\ resp[t].body # <<>>


\* one iteration of the outer while, from its test to the next test or to
\* the break of line 212
RECURSIVE RunRound(_)
RunRound(r) ==
    LET after == LoopStep(r)
    IN  IF after.pc \in {"test", "emit"} THEN after ELSE RunRound(after)

\* the ids left in the two pools
PoolSize(r) == Len(r.regular_pool) + Len(r.priority_pool)

\* the iteration that starts in r appends an id or shortens a pool
RoundProgress(r) ==
    LET after == RunRound(r)
    IN  \/ Len(after.ordered) > Len(r.ordered)
        \/ Len(after.regular_pool) < Len(r.regular_pool)
        \/ Len(after.priority_pool) < Len(r.priority_pool)

\* an iteration of the outer while is about to start
RoundStarts ==
    /\ rec.pc = "test"
    /\ LoopCond(rec.ordered, rec.regular_pool, rec.priority_pool, rec.num_items)

\* no step puts an id back into a pool
PoolsShrink == rec.pc \notin {"prepare", "pools"} => PoolSize(rec') <= PoolSize(rec)

\* C25: every iteration of the outer while appends an id or removes an id
\* from a pool, no step refills a pool, and the call reaches its return,
\* whatever the index, the seen list and the count
C25_LoopTerminates ==
    /\ [](RoundStarts => RoundProgress(rec))
    /\ [][PoolsShrink]_vars
    /\ <>(rec.pc = "done")

\* an iteration that starts with ids in the pools, all of them selected
\* already, and so appends nothing
C25_Witness ==
    /\ RoundStarts
    /\ Range(rec.regular_pool) \cup Range(rec.priority_pool) \subseteq Range(rec.ordered)


\* thread t takes a step of a call of record_interaction
RecordStep(t) ==
    /\ pc'[t] # pc[t]
    /\ req'[t].op = "record"
    /\ \/ pc[t] = "idle"
       \/ pc[t] \in {"ri_lock", "ri_lookup", "ri_read", "ri_write", "ri_seen",
                     "ri_liked", "ri_unlock"}
       \/ pc[t] \in {"sv_lock", "sv_open", "sv_dump", "sv_replace", "sv_unlock"}

\* profile `after` differs from profile `before` at most in the count of
\* cluster_key, in seen_videos and in liked_videos
OnlyRecordFields(before, after, cluster_key) ==
    /\ after.username = before.username
    /\ DOMAIN after.cluster_interactions \subseteq
           DOMAIN before.cluster_interactions \cup {cluster_key}
    /\ \A k \in DOMAIN before.cluster_interactions \ {cluster_key} :
           /\ k \in DOMAIN after.cluster_interactions
           /\ after.cluster_interactions[k] = before.cluster_interactions[k]

RecordFrame ==
    \A t \in Threads :
        RecordStep(t) =>
            /\ DOMAIN user_profiles' = DOMAIN user_profiles
            /\ \A w \in DOMAIN user_profiles :
                   IF w = req'[t].username
                   THEN OnlyRecordFields(user_profiles[w], user_profiles'[w],
                                         Str(req'[t].cluster_label))
                   ELSE user_profiles'[w] = user_profiles[w]

\* C26: no step of a call of record_interaction for u changes the profile
\* of another user, adds or removes a profile, or changes u's username or
\* u's count of a cluster other than the one recorded
C26_RecordFrame == [][RecordFrame]_vars

\* a record for one user has returned ok while another user has a profile
C26_Witness ==
    \E t \in Threads :
        /\ pc[t] = "idle" /\ req[t].op = "record" /\ resp[t].status = "ok"
        /\ \E w \in DOMAIN user_profiles : w # req[t].username


\* the first position of the index whose cluster has the greatest count
FirstMax(r) ==
    CHOOSE i \in DOMAIN r.videos_by_cluster :
        /\ \A j \in DOMAIN r.videos_by_cluster :
               CountOf(r, r.videos_by_cluster[j].key) <=
                   CountOf(r, r.videos_by_cluster[i].key)
        /\ \A j \in 1..(i - 1) :
               CountOf(r, r.videos_by_cluster[j].key) <
                   CountOf(r, r.videos_by_cluster[i].key)

\* C27: among the clusters of the index that share the greatest interaction
\* count, the top cluster is the one that comes first in the index's key
\* order, so the profile and the index determine it
C27_FirstOfTies ==
    (PoolsBuilt(rec) /\ rec.videos_by_cluster # <<>>) =>
        TopCluster(rec.sorted_clusters) = rec.videos_by_cluster[FirstMax(rec)].key

\* the pools were built for an index whose two clusters have the same
\* count, one that the profile holds, and different lists
C27_Witness ==
    /\ PoolsBuilt(rec)
    /\ Len(rec.videos_by_cluster) = 2
    /\ CountOf(rec, rec.videos_by_cluster[1].key) = CountOf(rec, rec.videos_by_cluster[2].key)
    /\ CountOf(rec, rec.videos_by_cluster[1].key) > 0
    /\ Range(rec.videos_by_cluster[1].vids) # Range(rec.videos_by_cluster[2].vids)
    /\ rec.priority_pool # <<>>


\* both calls have returned
BothReturned == rec.pc = "done" /\ inl.pc = "done"

\* C28: on the same interaction counts, seen list and index, and with the
\* same outcomes of the two shuffles, the inline loop of app/backend.py and
\* recommend_with_priority_pattern(num_items=8) return the same list of
\* {pid, cluster_label}
C28_InlineEquivalent == BothReturned => inl.items = rec.items

\* both calls returned a full list, ids being left in the pools, and the
\* first of them was seen
C28_Witness ==
    /\ BothReturned
    /\ Len(rec.items) = NumItems
    /\ rec.regular_pool # <<>>
    /\ rec.seen_set # {}


\* while no call holds comments_lock, comments.json holds for every video
\* the comments posted to it, in the order their calls took the lock
CommentsKept == comments_lock = FreeLock => load_comments_store(comments_file) = posted

\* a post that has returned ok has its comment in the file
ReturnedPosts ==
    \A t \in Threads :
        (pc[t] = "idle" /\ req[t].op = "comment" /\ resp[t].status = "ok") =>
            \E i \in DOMAIN DictGet(load_comments_store(comments_file),
                                    Str(req[t].pid), <<>>) :
                load_comments_store(comments_file)[Str(req[t].pid)][i] = CommentOf(req[t])

\* the step that takes a post with a blank username or text answers 400 and
\* leaves the store as it is
BlankPostStep ==
    \A t \in Threads :
        (pc[t] = "idle" /\ calls' = calls + 1 /\ req'[t].op = "comment"
           /\ (Blank(req'[t].username) \/ Blank(req'[t].text))) =>
            /\ resp'[t].status = "400"
            /\ pc'[t] = "idle"
            /\ UNCHANGED comments

\* C29: after any interleaving of post_comment calls, comments.json holds
\* for each video exactly the comments of the posts that returned ok, in the
\* order their calls took comments_lock; a post with a blank username or a
\* blank text fails with 400 and leaves the store unchanged
C29_NoCommentLost ==
    /\ [](CommentsKept /\ ReturnedPosts)
    /\ [][BlankPostStep]_vars

\* two posts on the same video and one blank post have returned, and the
\* file holds the two comments
C29_Witness ==
    /\ comments_lock = FreeLock
    /\ \A t \in Threads : pc[t] = "idle"
    /\ \E k \in DOMAIN posted : Len(posted[k]) = 2
    /\ \E t \in Threads : req[t].op = "comment" /\ resp[t].status = "400"
    /\ \A t \in Threads : req[t].op = "comment"

====
